---- MODULE Spec2Model ----
(***************************************************************************)
(* LNG cargo diversion engine: netback calculator, decision engine,        *)
(* one-call trade decision and configuration validation.                   *)
(*                                                                         *)
(* Numbers.  The program computes in Python floats.  The model holds each  *)
(* number as the exact rational <<n, d>> (d > 0, lowest terms) of the      *)
(* computation, so every identity below is exact where the program's holds *)
(* up to floating-point rounding.  Where a float decides something         *)
(* discrete (a comparison, math.floor) the model computes the floats       *)
(* themselves, in binary64, from the rationals the operation was given.    *)
(***************************************************************************)
EXTENDS Integers, Sequences, FiniteSets, TLC

VARIABLES
    engine,   \* the DecisionEngine instance: its six configuration fields
    calc,     \* the NetbackCalculator instance: routes, vessels, carbon_params
    config,   \* the configuration dict handed to validate_config
    analyzer, \* the RiskAnalyzer instance, None until one is constructed
    previous, \* the first of two calls made with the same inputs, and its result
    call,     \* the operation last invoked, with its arguments
    ret       \* what that operation returned, or the exception it raised

vars == <<engine, calc, config, analyzer, previous, call, ret>>

----------------------------------------------------------------------------
(* Rational arithmetic standing for Python float arithmetic.               *)

Abs(x) == IF x < 0 THEN -x ELSE x

RECURSIVE GCD(_, _)
GCD(a, b) == IF b = 0 THEN a ELSE GCD(b, a % b)

\* n/d in lowest terms with a positive denominator (d # 0).
Rat(n, d) ==
    LET s == IF d < 0 THEN -1 ELSE 1
        g == GCD(Abs(n), Abs(d))
    IN  <<(s * n) \div g, (s * d) \div g>>

R(k) == <<k, 1>>

\* Sums and products cancel common factors before they multiply, so that
\* the intermediate integers stay as small as the result allows.
RAddOver(a, b, g) == Rat(a[1] * (b[2] \div g) + b[1] * (a[2] \div g), (a[2] \div g) * b[2])
RAdd(a, b) ==
    IF a[1] = 0 THEN b
    ELSE IF b[1] = 0 THEN a
    ELSE RAddOver(a, b, GCD(a[2], b[2]))
RSub(a, b) == RAdd(a, <<-b[1], b[2]>>)
RMulOver(a, b, g, h) == Rat((a[1] \div g) * (b[1] \div h), (a[2] \div h) * (b[2] \div g))
RMul(a, b) ==
    IF a[1] = 0 \/ b[1] = 0 THEN <<0, 1>>
    ELSE RMulOver(a, b, GCD(Abs(a[1]), b[2]), GCD(Abs(b[1]), a[2]))
\* a / b for b # 0
RDiv(a, b) == RMul(a, IF b[1] < 0 THEN <<-b[2], -b[1]>> ELSE <<b[2], b[1]>>)
RNeg(a) == <<-a[1], a[2]>>

RLt(a, b) == a[1] * b[2] < b[1] * a[2]
RLeq(a, b) == a[1] * b[2] <= b[1] * a[2]
RGeq(a, b) == RLeq(b, a)
RGt(a, b) == RLt(b, a)
RIsZero(a) == a[1] = 0
RAbs(a) == <<Abs(a[1]), a[2]>>

RMax(a, b) == IF RLt(a, b) THEN b ELSE a

\* math.floor(a): the largest integer <= a, also for negative a.
Floor(a) == a[1] \div a[2]

\* An exception propagating out of a call, and a normal return.
Raise(exc, key) == [kind |-> "raise", exc |-> exc, key |-> key]
Return(v) == [kind |-> "return", value |-> v]

Returned(r) == r.kind = "return"
Raised(r) == r.kind = "raise"

None == "None"

----------------------------------------------------------------------------
(* Python's float and numpy.float64: IEEE 754 binary64, round to nearest,  *)
(* ties to even.  A float is its sign, its 53-bit mantissa m and the       *)
(* exponent e of the mantissa's last bit: sign * m * 2^e.  The mantissa is *)
(* a natural number held as its digits in base LIMB, least significant     *)
(* first and without leading zeros, so that no step leaves 32 bits.        *)

FLOAT64_MANTISSA_BITS == 53
LIMB_BITS == 14
LIMB == 16384

Pow2(k) == 2^k

\* The tuple of the values of a function on 1..n: the digits of a number,
\* the rows of a table.
Digits(f) == f \o <<>>

Rows(f) == f \o <<>>

Zeros(k) == Digits([i \in 1..k |-> 0])

\* The digits of a natural number below 2^31.
RECURSIVE Big(_)
Big(n) == IF n = 0 THEN <<>> ELSE <<n % LIMB>> \o Big(n \div LIMB)

\* The number of digits held, when it is below 2^31.
RECURSIVE Small(_)
Small(a) == IF a = <<>> THEN 0 ELSE a[1] + LIMB * Small(Tail(a))

RECURSIVE Trim(_)
Trim(a) ==
    IF a = <<>> THEN a
    ELSE IF a[Len(a)] # 0 THEN a
    ELSE Trim(SubSeq(a, 1, Len(a) - 1))

Limb(a, i) == IF i <= Len(a) THEN a[i] ELSE 0

\* Columns are worth columns[i] * LIMB^(i-1).  One pass leaves in each
\* column its own digit and the carry of the column below: columns below
\* 2^31 are below 2 * LIMB - 1 after two passes.
CarryOnce(columns, i) ==
    (Limb(columns, i) % LIMB)
        + (IF i = 1 THEN 0 ELSE Limb(columns, i - 1) \div LIMB)

CarryTwice(columns, i) ==
    (CarryOnce(columns, i) % LIMB)
        + (IF i = 1 THEN 0 ELSE CarryOnce(columns, i - 1) \div LIMB)

CarryPasses(columns) ==
    IF columns = <<>> THEN <<>>
    ELSE Digits([i \in 1..(Len(columns) + 2) |-> CarryTwice(columns, i)])

\* Whether a carry reaches column i of columns below 2 * LIMB - 1: a column
\* below it overflows and every column between the two is full.
CarryInto(columns, i) ==
    \E j \in 1..(i - 1) :
        /\ columns[j] >= LIMB
        /\ \A k \in (j + 1)..(i - 1) : columns[k] = LIMB - 1

\* The digits of the number held in columns below 2 * LIMB - 1.
Carried(columns) ==
    IF columns = <<>> THEN <<>>
    ELSE Trim(Digits([i \in 1..(Len(columns) + 1) |->
                         (Limb(columns, i) + (IF CarryInto(columns, i) THEN 1 ELSE 0))
                             % LIMB]))

BigAdd(a, b) ==
    IF a = <<>> THEN b
    ELSE IF b = <<>> THEN a
    ELSE Carried(Digits([i \in 1..(IF Len(a) > Len(b) THEN Len(a) ELSE Len(b)) |->
                            Limb(a, i) + Limb(b, i)]))

\* Whether column i lends to a column below it, the columns being
\* differences of digits: a column below it is negative and every column
\* between the two is zero.
BorrowFrom(columns, i) ==
    \E j \in 1..(i - 1) :
        /\ columns[j] < 0
        /\ \A k \in (j + 1)..(i - 1) : columns[k] = 0

Borrowed(columns) ==
    IF columns = <<>> THEN <<>>
    ELSE Trim(Digits([i \in 1..Len(columns) |->
                         (columns[i] - (IF BorrowFrom(columns, i) THEN 1 ELSE 0)) % LIMB]))

\* a - b for a >= b
BigSub(a, b) ==
    IF b = <<>> THEN a
    ELSE Borrowed(Digits([i \in 1..Len(a) |-> a[i] - Limb(b, i)]))

BigLess(a, b) ==
    IF Len(a) # Len(b) THEN Len(a) < Len(b)
    ELSE \E i \in 1..Len(a) : a[i] < b[i] /\ \A j \in (i + 1)..Len(a) : a[j] = b[j]

\* The sum of a[i] * b[k + 1 - i] over the digits i and above of a that
\* meet a digit of b.
RECURSIVE Column(_, _, _, _)
Column(a, b, k, i) ==
    IF i > Len(a) \/ i > k THEN 0
    ELSE a[i] * b[k + 1 - i] + Column(a, b, k, i + 1)

FirstOfColumn(b, k) == IF k > Len(b) THEN k + 1 - Len(b) ELSE 1

BigMul(a, b) ==
    IF a = <<>> \/ b = <<>> THEN <<>>
    ELSE Carried(CarryPasses(Digits(
             [k \in 1..(Len(a) + Len(b) - 1) |-> Column(a, b, k, FirstOfColumn(b, k))])))

\* a * 2^k
ShiftLeft(a, k) == Zeros(k \div LIMB_BITS) \o BigMul(a, <<Pow2(k % LIMB_BITS)>>)

\* floor(a / 2^k)
ShiftRightBy(rest, p) ==
    Trim(Digits([i \in 1..Len(rest) |->
                    rest[i] \div p + (Limb(rest, i + 1) % p) * (LIMB \div p)]))

ShiftRight(a, k) ==
    IF k \div LIMB_BITS >= Len(a) THEN <<>>
    ELSE ShiftRightBy(SubSeq(a, k \div LIMB_BITS + 1, Len(a)), Pow2(k % LIMB_BITS))

\* Whether a is not a multiple of 2^k.
Inexact(a, k) ==
    \/ \E i \in 1..Len(a) : i <= k \div LIMB_BITS /\ a[i] # 0
    \/ Limb(a, k \div LIMB_BITS + 1) % Pow2(k % LIMB_BITS) # 0

\* The number of bits of a digit, and of a.
DigitBitLength(n) ==
    CHOOSE bits \in 0..LIMB_BITS : Pow2(bits) > n /\ (bits = 0 \/ Pow2(bits - 1) <= n)

BitLength(a) ==
    IF a = <<>> THEN 0 ELSE LIMB_BITS * (Len(a) - 1) + DigitBitLength(a[Len(a)])

\* Whether a is a power of two.
IsPowerOfTwo(a) ==
    /\ a # <<>>
    /\ \A i \in 1..(Len(a) - 1) : a[i] = 0
    /\ Pow2(DigitBitLength(a[Len(a)]) - 1) = a[Len(a)]

\* The largest digit q with q * d <= r, none above estimate.
RECURSIVE QuotientDigit(_, _, _)
QuotientDigit(r, d, estimate) ==
    IF BigLess(r, BigMul(d, <<estimate>>)) THEN QuotientDigit(r, d, estimate - 1)
    ELSE estimate

\* Knuth's algorithm D: when the leading digit of d is at least LIMB / 2,
\* the two leading digits of r divided by it give the quotient digit or at
\* most two above it.
DigitEstimate(r, d) ==
    IF (Limb(r, Len(d) + 1) * LIMB + Limb(r, Len(d))) \div d[Len(d)] >= LIMB
    THEN LIMB - 1
    ELSE (Limb(r, Len(d) + 1) * LIMB + Limb(r, Len(d))) \div d[Len(d)]

\* Schoolbook long division of a by d, a state at a time: the digits i..1
\* of a are still to bring down, q holds the quotient digits found so far,
\* least significant first, and r the remainder of the digits above i.
\* A step brings down digit i (r is then the remainder with it).
LongDivisionStep(d, division, r, digit) ==
    [i |-> division.i - 1,
     q |-> <<digit>> \o division.q,
     r |-> BigSub(r, BigMul(d, <<digit>>))]

LongDivisionBroughtDown(d, division, r) ==
    LongDivisionStep(d, division, r, QuotientDigit(r, d, DigitEstimate(r, d)))

RECURSIVE LongDivisionFrom(_, _, _)
LongDivisionFrom(a, d, division) ==
    IF division.i = 0 THEN division
    ELSE LongDivisionFrom(a, d, LongDivisionBroughtDown(
                                    d, division, Trim(<<a[division.i]>> \o division.r)))

\* The digits above the last Len(a) - Len(d) + 1 are below d: the division
\* starts with them as the remainder.
LongDivisionNormalised(a, d) ==
    IF Len(a) < Len(d) THEN [i |-> 0, q |-> <<>>, r |-> a]
    ELSE LongDivisionFrom(a, d, [i |-> Len(a) - Len(d) + 1, q |-> <<>>,
                                 r |-> SubSeq(a, Len(a) - Len(d) + 2, Len(a))])

\* floor(a / d), and whether the division is exact.
Quotient(division) == [q |-> Trim(division.q), exact |-> division.r = <<>>]

LongDivision(a, d) ==
    Quotient(LongDivisionNormalised(
                 ShiftLeft(a, LIMB_BITS - DigitBitLength(d[Len(d)])),
                 ShiftLeft(d, LIMB_BITS - DigitBitLength(d[Len(d)]))))

Bit(a, j) == (Limb(a, j \div LIMB_BITS + 1) \div Pow2(j % LIMB_BITS)) % 2

FloatZero == [sign |-> 0, m |-> <<>>, e |-> 0]

\* The mantissa m, or m + 1 when rounding up: a carry into a 54th bit
\* leaves 2^53, which is 2^52 with the next exponent.
RoundedUp(sign, m, e, up) ==
    IF ~up THEN [sign |-> sign, m |-> m, e |-> e]
    ELSE IF BitLength(BigAdd(m, <<1>>)) > FLOAT64_MANTISSA_BITS
    THEN [sign |-> sign, m |-> ShiftRight(BigAdd(m, <<1>>), 1), e |-> e + 1]
    ELSE [sign |-> sign, m |-> BigAdd(m, <<1>>), e |-> e]

\* Round to nearest, ties to even, dropping the last `drop` bits of n.
RoundedBy(sign, n, e, inexact, drop) ==
    RoundedUp(sign, ShiftRight(n, drop), e + drop,
              /\ Bit(n, drop - 1) = 1
              /\ \/ inexact
                 \/ Inexact(n, drop - 1)
                 \/ Bit(n, drop) = 1)

\* The float nearest to sign * (n + x) * 2^e, where 0 <= x < 1 and x > 0
\* exactly when inexact (n then has more than 53 bits).
Rounded(sign, n, e, inexact) ==
    IF BitLength(n) <= FLOAT64_MANTISSA_BITS
    THEN [sign |-> sign, m |-> ShiftLeft(n, FLOAT64_MANTISSA_BITS - BitLength(n)),
          e |-> e - (FLOAT64_MANTISSA_BITS - BitLength(n))]
    ELSE RoundedBy(sign, n, e, inexact, BitLength(n) - FLOAT64_MANTISSA_BITS)

RoundedQuotient(sign, division, e) == Rounded(sign, division.q, e, ~division.exact)

Sign(n) == IF n < 0 THEN -1 ELSE IF n = 0 THEN 0 ELSE 1

\* float(r): the float nearest to the rational r, which is r itself when
\* the denominator is a power of two.  Otherwise the numerator is shifted
\* so that the quotient has two bits more than a mantissa or three.
ToDoubleShift(n, d) == FLOAT64_MANTISSA_BITS + 2 + BitLength(d) - BitLength(n)

ToDoubleNonzero(sign, n, d) ==
    IF IsPowerOfTwo(d)
    THEN Rounded(sign, n, 1 - BitLength(d), FALSE)
    ELSE RoundedQuotient(sign, LongDivision(ShiftLeft(n, ToDoubleShift(n, d)), d),
                         0 - ToDoubleShift(n, d))

ToDouble(r) ==
    IF r[1] = 0 THEN FloatZero
    ELSE ToDoubleNonzero(Sign(r[1]), Big(Sign(r[1]) * r[1]), Big(r[2]))

FloatNeg(a) == [sign |-> 0 - a.sign, m |-> a.m, e |-> a.e]

\* a + b for nonzero a and b with a.e >= b.e: exact, then rounded.  A
\* summand more than 64 binary places below the other does not change it.
FloatAddAligned(a, b, x, y) ==
    IF a.sign = b.sign THEN Rounded(a.sign, BigAdd(x, y), b.e, FALSE)
    ELSE IF x = y THEN FloatZero
    ELSE IF BigLess(x, y) THEN Rounded(b.sign, BigSub(y, x), b.e, FALSE)
    ELSE Rounded(a.sign, BigSub(x, y), b.e, FALSE)

FloatAddOrdered(a, b) ==
    IF a.e - b.e > 64 THEN a
    ELSE FloatAddAligned(a, b, ShiftLeft(a.m, a.e - b.e), b.m)

\* a + b
FloatAdd(a, b) ==
    IF a.sign = 0 THEN b
    ELSE IF b.sign = 0 THEN a
    ELSE IF a.e >= b.e THEN FloatAddOrdered(a, b)
    ELSE FloatAddOrdered(b, a)

\* a - b
FloatSub(a, b) == FloatAdd(a, FloatNeg(b))

\* a * b
FloatMul(a, b) ==
    IF a.sign = 0 \/ b.sign = 0 THEN FloatZero
    ELSE Rounded(a.sign * b.sign, BigMul(a.m, b.m), a.e + b.e, FALSE)

\* a / b for nonzero b
FloatDiv(a, b) ==
    IF a.sign = 0 THEN FloatZero
    ELSE RoundedQuotient(a.sign * b.sign,
                         LongDivision(ShiftLeft(a.m, FLOAT64_MANTISSA_BITS + 3), b.m),
                         a.e - b.e - (FLOAT64_MANTISSA_BITS + 3))

\* a < b
FloatMagnitudeLess(a, b) == a.e < b.e \/ (a.e = b.e /\ BigLess(a.m, b.m))

FloatLess(a, b) ==
    IF a.sign # b.sign THEN a.sign < b.sign
    ELSE IF a.sign = 1 THEN FloatMagnitudeLess(a, b)
    ELSE IF a.sign = -1 THEN FloatMagnitudeLess(b, a)
    ELSE FALSE

\* a >= b
FloatGeq(a, b) == ~FloatLess(a, b)

\* math.floor(a), an int
FloatFloor(a) ==
    IF a.sign = 0 THEN 0
    ELSE IF a.e >= 0 THEN a.sign * Small(ShiftLeft(a.m, a.e))
    ELSE IF a.sign = 1 THEN Small(ShiftRight(a.m, 0 - a.e))
    ELSE 0 - Small(ShiftRight(a.m, 0 - a.e)) - (IF Inexact(a.m, 0 - a.e) THEN 1 ELSE 0)

----------------------------------------------------------------------------
(* engine/netback.py: NetbackCalculator                                    *)

LNG_DENSITY_T_PER_M3 == Rat(45, 100)
ENERGY_CONTENT_MMBTU_PER_T == 52
HOURS_PER_DAY == 24

\* NetbackCalculator.__init__ stores the three tables unchanged.
NetbackCalculatorInit(routes, vessels, carbon_params) ==
    [routes |-> routes, vessels |-> vessels, carbon_params |-> carbon_params]

\* Mutant: the load port left out of the match.
RouteRowsAnyLoadPort(self, load_port, discharge_port) ==
    LET Match(row) == row.discharge_port = discharge_port
    IN  SelectSeq(self.routes, Match)

\* self.routes[(load_port == ...) & (discharge_port == ...)]: the matching
\* rows, in table order.
RouteRows(self, load_port, discharge_port) ==
    LET Match(row) == row.load_port = load_port /\ row.discharge_port = discharge_port
    IN  SelectSeq(self.routes, Match)

\* self.vessels[vessel_class == ...]
VesselRows(self, vessel_class) ==
    LET Match(row) == row.vessel_class = vessel_class
    IN  SelectSeq(self.vessels, Match)

Co2FactorVlsfoOnly(self, fuel_type) ==
    self.carbon_params.CO2_factor_VLSFO_tCO2_per_t_fuel

\* The CO2 factor chosen by fuel_type: VLSFO, or the LNG factor for anything else.
Co2Factor(self, fuel_type) ==
    IF fuel_type = "VLSFO"
    THEN self.carbon_params.CO2_factor_VLSFO_tCO2_per_t_fuel
    ELSE self.carbon_params.CO2_factor_LNG_tCO2_per_t_fuel

\* boil_off_m3 = cargo_capacity_m3 * (boil_off_pct_per_day / 100) * voyage_days
BoilOffM3NoPercent(cargo_capacity_m3, boil_off_pct_per_day, voyage_days) ==
    RMul(RMul(cargo_capacity_m3, boil_off_pct_per_day), voyage_days)

BoilOffM3(cargo_capacity_m3, boil_off_pct_per_day, voyage_days) ==
    RMul(RMul(cargo_capacity_m3, RDiv(boil_off_pct_per_day, R(100))), voyage_days)

\* delivered_cargo_m3 = cargo_capacity_m3 - boil_off_m3, with no clamp.
DeliveredCargoM3Clamped(cargo_capacity_m3, boil_off_m3) ==
    RMax(RSub(cargo_capacity_m3, boil_off_m3), R(0))

DeliveredCargoM3(cargo_capacity_m3, boil_off_m3) ==
    RSub(cargo_capacity_m3, boil_off_m3)

\* The arithmetic of calculate_voyage once the route's distance and the
\* vessel row are known.
VoyageDetailsOf(self, distance_nm, vessel, cargo_capacity_m3, freight_rate_usd_day, fuel_price_usd_t, eua_price_usd_t, fuel_type) ==
    LET voyage_days == RDiv(distance_nm, RMul(vessel.laden_speed_kn, R(HOURS_PER_DAY)))
        boil_off_m3 == BoilOffM3(cargo_capacity_m3, vessel.boil_off_pct_per_day,
                                 voyage_days)
        delivered_cargo_m3 == DeliveredCargoM3(cargo_capacity_m3, boil_off_m3)
        delivered_cargo_tonnes == RMul(delivered_cargo_m3, LNG_DENSITY_T_PER_M3)
        delivered_energy_mmbtu == RMul(delivered_cargo_tonnes, R(ENERGY_CONTENT_MMBTU_PER_T))
        fuel_consumed_tonnes == RMul(vessel.fuel_consumption_tpd_laden, voyage_days)
        fuel_cost_usd == RMul(fuel_consumed_tonnes, fuel_price_usd_t)
        time_charter_cost_usd == RMul(freight_rate_usd_day, voyage_days)
        carbon_emissions_tco2 == RMul(fuel_consumed_tonnes, Co2Factor(self, fuel_type))
        carbon_cost_usd == RMul(carbon_emissions_tco2, eua_price_usd_t)
        total_voyage_cost_usd == RAdd(RAdd(fuel_cost_usd, time_charter_cost_usd),
                                      carbon_cost_usd)
    IN  [distance_nm |-> distance_nm,
         voyage_days |-> voyage_days,
         boil_off_m3 |-> boil_off_m3,
         delivered_cargo_m3 |-> delivered_cargo_m3,
         delivered_energy_mmbtu |-> delivered_energy_mmbtu,
         fuel_consumed_tonnes |-> fuel_consumed_tonnes,
         fuel_cost_usd |-> fuel_cost_usd,
         time_charter_cost_usd |-> time_charter_cost_usd,
         carbon_cost_usd |-> carbon_cost_usd,
         total_voyage_cost_usd |-> total_voyage_cost_usd]

\* NetbackCalculator.calculate_voyage: the route lookup, then the vessel
\* lookup, each raising ValueError with the key it looked for; the first
\* matching row of each table is the one used.
CalculateVoyageOf(self, load_port, discharge_port, vessel_class, cargo_capacity_m3, freight_rate_usd_day, fuel_price_usd_t, eua_price_usd_t, fuel_type) ==
    LET route == RouteRows(self, load_port, discharge_port)
        vessel == VesselRows(self, vessel_class)
    IN  IF route = <<>>
        THEN Raise("ValueError", <<"Route not found", load_port, discharge_port>>)
        ELSE IF vessel = <<>>
        THEN Raise("ValueError", <<"Vessel class not found", vessel_class>>)
        ELSE Return(VoyageDetailsOf(self, route[1].distance_nm, vessel[1],
                                    cargo_capacity_m3, freight_rate_usd_day,
                                    fuel_price_usd_t, eua_price_usd_t, fuel_type))

\* netback_usd = revenue_usd - voyage_details.total_voyage_cost_usd: the total
\* already holds the carbon cost.
NetbackUsdCarbonTwice(revenue_usd, voyage_details) ==
    RSub(RSub(revenue_usd, voyage_details.total_voyage_cost_usd),
         voyage_details.carbon_cost_usd)

NetbackUsd(revenue_usd, voyage_details) ==
    RSub(revenue_usd, voyage_details.total_voyage_cost_usd)

\* NetbackCalculator.calculate_netback
CalculateNetbackOf(destination, destination_price_usd_mmbtu, voyage_details) ==
    LET revenue_usd == RMul(destination_price_usd_mmbtu,
                            voyage_details.delivered_energy_mmbtu)
        netback_usd == NetbackUsd(revenue_usd, voyage_details)
    IN  [destination |-> destination,
         price_usd_mmbtu |-> destination_price_usd_mmbtu,
         delivered_energy_mmbtu |-> voyage_details.delivered_energy_mmbtu,
         revenue_usd |-> revenue_usd,
         voyage_cost_usd |-> RSub(voyage_details.total_voyage_cost_usd,
                                  voyage_details.carbon_cost_usd),
         carbon_cost_usd |-> voyage_details.carbon_cost_usd,
         netback_usd |-> netback_usd,
         voyage_details |-> voyage_details]

\* compare_netbacks once both voyages are computed or have raised: an
\* exception of either voyage propagates, the Europe voyage being the
\* first, and nothing is returned; otherwise the pair of netbacks.
NetbacksOfVoyages(ttf_price, jkm_price, europe_voyage, asia_voyage) ==
    IF Raised(europe_voyage) THEN europe_voyage
    ELSE IF Raised(asia_voyage) THEN asia_voyage
    ELSE Return(<<CalculateNetbackOf("Europe", ttf_price, europe_voyage.value),
                  CalculateNetbackOf("Asia", jkm_price, asia_voyage.value)>>)

\* NetbackCalculator.compare_netbacks: the Europe voyage and netback, then
\* the Asia voyage and netback, with the default fuel type.
CompareNetbacksOf(self, load_port, europe_port, asia_port, vessel_class, cargo_capacity_m3, ttf_price, jkm_price, freight_rate_usd_day, fuel_price_usd_t, eua_price_usd_t) ==
    NetbacksOfVoyages(ttf_price, jkm_price,
                      CalculateVoyageOf(self, load_port, europe_port, vessel_class,
                                        cargo_capacity_m3, freight_rate_usd_day,
                                        fuel_price_usd_t, eua_price_usd_t, "VLSFO"),
                      CalculateVoyageOf(self, load_port, asia_port, vessel_class,
                                        cargo_capacity_m3, freight_rate_usd_day,
                                        fuel_price_usd_t, eua_price_usd_t, "VLSFO"))

\* The numbers of calculate_voyage and calculate_netback as the code holds
\* them: each is a numpy.float64, the result of the operations of the source
\* in their order, every one of them rounded.  The records above keep the
\* exact values; the rounded ones decide the comparison and the floors of
\* the decision engine where the exact values are a close call.

\* The three numbers DecisionEngine.evaluate reads from its two netbacks,
\* as the floats the netbacks hold.
Floats(europe_netback_usd, asia_netback_usd, delivered_energy_mmbtu) ==
    [europe_netback_usd |-> europe_netback_usd,
     asia_netback_usd |-> asia_netback_usd,
     delivered_energy_mmbtu |-> delivered_energy_mmbtu]

\* voyage_days = distance_nm / (laden_speed_kn * HOURS_PER_DAY)
FloatVoyageDays(distance_nm, laden_speed_kn) ==
    FloatDiv(ToDouble(distance_nm),
             FloatMul(ToDouble(laden_speed_kn), ToDouble(R(HOURS_PER_DAY))))

\* boil_off_m3 = cargo_capacity_m3 * (boil_off_pct_per_day / 100) * voyage_days
FloatBoilOffM3(cargo_capacity_m3, boil_off_pct_per_day, voyage_days) ==
    FloatMul(FloatMul(cargo_capacity_m3,
                      FloatDiv(boil_off_pct_per_day, ToDouble(R(100)))),
             voyage_days)

\* delivered_cargo_m3 = cargo_capacity_m3 - boil_off_m3
\* delivered_cargo_tonnes = delivered_cargo_m3 * LNG_DENSITY_T_PER_M3
\* delivered_energy_mmbtu = delivered_cargo_tonnes * ENERGY_CONTENT_MMBTU_PER_T
FloatDeliveredEnergy(cargo_capacity_m3, boil_off_m3) ==
    FloatMul(FloatMul(FloatSub(cargo_capacity_m3, boil_off_m3),
                      ToDouble(LNG_DENSITY_T_PER_M3)),
             ToDouble(R(ENERGY_CONTENT_MMBTU_PER_T)))

\* total_voyage_cost_usd = fuel_cost_usd + time_charter_cost_usd + carbon_cost_usd,
\* added from the left, of fuel_consumed_tonnes * fuel_price_usd_t,
\* freight_rate_usd_day * voyage_days and
\* fuel_consumed_tonnes * co2_factor * eua_price_usd_t.
FloatTotalVoyageCost(fuel_consumed_tonnes, voyage_days, freight_rate_usd_day, fuel_price_usd_t, co2_factor, eua_price_usd_t) ==
    FloatAdd(FloatAdd(FloatMul(fuel_consumed_tonnes, fuel_price_usd_t),
                      FloatMul(freight_rate_usd_day, voyage_days)),
             FloatMul(FloatMul(fuel_consumed_tonnes, co2_factor), eua_price_usd_t))

\* The two numbers of a voyage the netback is computed from, once the days
\* of the voyage are known.
FloatVoyageOfDays(self, vessel, cargo_capacity_m3, freight_rate_usd_day, fuel_price_usd_t, eua_price_usd_t, fuel_type, voyage_days) ==
    [delivered_energy_mmbtu |->
         FloatDeliveredEnergy(ToDouble(cargo_capacity_m3),
                              FloatBoilOffM3(ToDouble(cargo_capacity_m3),
                                             ToDouble(vessel.boil_off_pct_per_day),
                                             voyage_days)),
     total_voyage_cost_usd |->
         FloatTotalVoyageCost(FloatMul(ToDouble(vessel.fuel_consumption_tpd_laden),
                                       voyage_days),
                              voyage_days, ToDouble(freight_rate_usd_day),
                              ToDouble(fuel_price_usd_t),
                              ToDouble(Co2Factor(self, fuel_type)),
                              ToDouble(eua_price_usd_t))]

\* calculate_voyage in floats, for a route and a vessel class that have a
\* row; the first matching row of each table is the one used.
FloatCalculateVoyageOf(self, load_port, discharge_port, vessel_class, cargo_capacity_m3, freight_rate_usd_day, fuel_price_usd_t, eua_price_usd_t, fuel_type) ==
    FloatVoyageOfDays(self, VesselRows(self, vessel_class)[1], cargo_capacity_m3,
                      freight_rate_usd_day, fuel_price_usd_t, eua_price_usd_t,
                      fuel_type,
                      FloatVoyageDays(RouteRows(self, load_port, discharge_port)[1].distance_nm,
                                      VesselRows(self, vessel_class)[1].laden_speed_kn))

\* netback_usd = destination_price_usd_mmbtu * delivered_energy_mmbtu
\*               - total_voyage_cost_usd
FloatNetbackUsd(destination_price_usd_mmbtu, voyage) ==
    FloatSub(FloatMul(ToDouble(destination_price_usd_mmbtu),
                      voyage.delivered_energy_mmbtu),
             voyage.total_voyage_cost_usd)

\* The floats of the two netbacks of compare_netbacks.
FloatNetbacksOfVoyages(ttf_price, jkm_price, europe_voyage, asia_voyage) ==
    Floats(FloatNetbackUsd(ttf_price, europe_voyage),
           FloatNetbackUsd(jkm_price, asia_voyage),
           asia_voyage.delivered_energy_mmbtu)

\* compare_netbacks in floats, for routes and a vessel class that have a row.
FloatCompareNetbacksOf(self, load_port, europe_port, asia_port, vessel_class, cargo_capacity_m3, ttf_price, jkm_price, freight_rate_usd_day, fuel_price_usd_t, eua_price_usd_t) ==
    FloatNetbacksOfVoyages(ttf_price, jkm_price,
                           FloatCalculateVoyageOf(self, load_port, europe_port,
                                                  vessel_class, cargo_capacity_m3,
                                                  freight_rate_usd_day, fuel_price_usd_t,
                                                  eua_price_usd_t, "VLSFO"),
                           FloatCalculateVoyageOf(self, load_port, asia_port,
                                                  vessel_class, cargo_capacity_m3,
                                                  freight_rate_usd_day, fuel_price_usd_t,
                                                  eua_price_usd_t, "VLSFO"))

----------------------------------------------------------------------------
(* engine/decision.py: DecisionEngine                                      *)

\* A NetbackResult built directly by a caller (the dataclass has a public
\* constructor): only netback_usd and delivered_energy_mmbtu are read by the
\* decision engine.
NetbackOf(destination, netback, energy) ==
    [destination |-> destination,
     netback_usd |-> netback,
     delivered_energy_mmbtu |-> energy]

\* Mutant: the reverse difference, Europe minus Asia.
DeltaNetbackRawReversed(europe_netback, asia_netback) ==
    RSub(europe_netback.netback_usd, asia_netback.netback_usd)

\* delta_netback_raw = asia_netback.netback_usd - europe_netback.netback_usd
DeltaNetbackRaw(europe_netback, asia_netback) ==
    RSub(asia_netback.netback_usd, europe_netback.netback_usd)

\* Mutant: the ops buffer deducted before the haircut is applied.
DeltaNetbackAdjBufferFirst(self, delta_netback_raw) ==
    RMul(RSub(delta_netback_raw, self.operational_risk_buffer_usd),
         RSub(R(1), self.basis_adjustment_pct))

\* delta_netback_adj = raw * (1 - basis_adjustment_pct) - operational_risk_buffer_usd
DeltaNetbackAdj(self, delta_netback_raw) ==
    RSub(RMul(delta_netback_raw, RSub(R(1), self.basis_adjustment_pct)),
         self.operational_risk_buffer_usd)

\* The type of the numbers of a NetbackResult.  The calculator computes
\* them from the columns of its pandas tables, which makes them
\* numpy.float64; a NetbackResult a caller builds from Python numbers holds
\* float.
NumberType(netback) ==
    IF "voyage_details" \in DOMAIN netback THEN "numpy.float64" ELSE "float"

\* Rounding changes the result of a few float operations by less than
\* 2^-50 of the size of their operands.  A quantity that exact arithmetic
\* puts further than 1/ROUNDING_MARGIN of that size from a threshold is on
\* the same side of it in floats; one that is nearer is a close call, and
\* the floats themselves decide it.
ROUNDING_MARGIN == 1024

CloseCall(distance, size) ==
    \/ RIsZero(distance)
    \/ Floor(RDiv(size, RAbs(distance))) >= ROUNDING_MARGIN

\* The size of the operands the delivered energy of a netback was computed
\* from: the energy itself when the caller supplied it, and the energy of
\* the cargo loaded and of the cargo boiled off when calculate_voyage
\* subtracted the one from the other (the cargo loaded is at most the
\* cargo delivered plus the boil-off in size).
EnergySize(netback) ==
    IF NumberType(netback) = "float" THEN RAbs(netback.delivered_energy_mmbtu)
    ELSE RMul(RAdd(RAbs(netback.voyage_details.delivered_cargo_m3),
                   RMul(R(2), RAbs(netback.voyage_details.boil_off_m3))),
              RMul(LNG_DENSITY_T_PER_M3, R(ENERGY_CONTENT_MMBTU_PER_T)))

\* The size of the operands netback_usd was computed from: the netback
\* itself when the caller supplied it, and the revenue and the three costs
\* when calculate_netback subtracted the ones from the other.
NetbackSize(netback) ==
    IF NumberType(netback) = "float" THEN RAbs(netback.netback_usd)
    ELSE RAdd(RAdd(RMul(RAbs(netback.price_usd_mmbtu), EnergySize(netback)),
                   RAbs(netback.voyage_details.fuel_cost_usd)),
              RAdd(RAbs(netback.voyage_details.time_charter_cost_usd),
                   RAbs(netback.voyage_details.carbon_cost_usd)))

\* The floats of two netbacks a caller built from Python numbers: each is
\* the float nearest to the number.
FloatsOf(europe_netback, asia_netback) ==
    Floats(ToDouble(europe_netback.netback_usd), ToDouble(asia_netback.netback_usd),
           ToDouble(asia_netback.delivered_energy_mmbtu))

\* delta_netback_adj as evaluate computes it:
\* (asia - europe) * (1 - basis_adjustment_pct) - operational_risk_buffer_usd
FloatDeltaNetbackAdj(self, floats) ==
    FloatSub(FloatMul(FloatSub(floats.asia_netback_usd, floats.europe_netback_usd),
                      FloatSub(ToDouble(R(1)), ToDouble(self.basis_adjustment_pct))),
             ToDouble(self.operational_risk_buffer_usd))

\* The size of the operands of delta_netback_adj >= decision_buffer_usd.
DeltaNetbackSize(self, europe_netback, asia_netback) ==
    RAdd(RMul(RAdd(NetbackSize(asia_netback), NetbackSize(europe_netback)),
              RAdd(R(1), RAbs(self.basis_adjustment_pct))),
         RAdd(RAbs(self.operational_risk_buffer_usd), RAbs(self.decision_buffer_usd)))

\* How the float delta_netback_adj compares with the float
\* self.decision_buffer_usd: 1 above, 0 equal, -1 below.
FloatCompared(a, b) == IF FloatLess(a, b) THEN -1 ELSE IF FloatLess(b, a) THEN 1 ELSE 0

ComparedWithBuffer(self, europe_netback, asia_netback, delta_netback_adj, floats) ==
    IF CloseCall(RSub(delta_netback_adj, self.decision_buffer_usd),
                 DeltaNetbackSize(self, europe_netback, asia_netback))
    THEN FloatCompared(FloatDeltaNetbackAdj(self, floats),
                       ToDouble(self.decision_buffer_usd))
    ELSE IF RLt(delta_netback_adj, self.decision_buffer_usd) THEN -1 ELSE 1

\* Mutant: a strict comparison, so a delta equal to the buffer is KEEP.
DecisionRuleStrict(self, europe_netback, asia_netback, delta_netback_adj, floats) ==
    IF ComparedWithBuffer(self, europe_netback, asia_netback, delta_netback_adj,
                          floats) > 0
    THEN "DIVERT" ELSE "KEEP"

\* The decision rule of evaluate, the test of the if statement:
\* delta_netback_adj >= self.decision_buffer_usd
DecisionRule(self, europe_netback, asia_netback, delta_netback_adj, floats) ==
    IF ComparedWithBuffer(self, europe_netback, asia_netback, delta_netback_adj,
                          floats) >= 0
    THEN "DIVERT" ELSE "KEEP"

\* hedge_energy = asia_netback.delivered_energy_mmbtu * coverage_pct
HedgeEnergy(self, asia_netback) ==
    RMul(asia_netback.delivered_energy_mmbtu, self.coverage_pct)

\* hedge_energy as the division reads it: the float
\* delivered_energy * coverage_pct.
FloatHedgeEnergy(delivered_energy, coverage_pct) ==
    FloatMul(delivered_energy, ToDouble(coverage_pct))

\* math.floor(hedge_energy / lot) in floats, hedge_energy being the float
\* delivered_energy * coverage_pct.
FloatLots(delivered_energy, coverage_pct, lot_mmbtu) ==
    FloatFloor(FloatDiv(FloatHedgeEnergy(delivered_energy, coverage_pct),
                        ToDouble(lot_mmbtu)))

\* The exact quotient is a close call when it is an integer or next to one.
LotsCloseCall(quotient, size) ==
    \/ CloseCall(RSub(quotient, R(Floor(quotient))), size)
    \/ CloseCall(RSub(R(Floor(quotient) + 1), quotient), size)

\* math.floor(hedge_energy / lot) for hedge_energy = delivered_energy *
\* coverage_pct; the caller has excluded lot = 0.
Lots(asia_netback, coverage_pct, lot_mmbtu, floats) ==
    IF LotsCloseCall(RDiv(RMul(asia_netback.delivered_energy_mmbtu, coverage_pct),
                          lot_mmbtu),
                     RDiv(RMul(EnergySize(asia_netback), RAbs(coverage_pct)),
                          RAbs(lot_mmbtu)))
    THEN FloatLots(floats.delivered_energy_mmbtu, coverage_pct, lot_mmbtu)
    ELSE Floor(RDiv(RMul(asia_netback.delivered_energy_mmbtu, coverage_pct),
                    lot_mmbtu))

\* math.floor(hedge_energy / lot).  With a zero lot size the division of a
\* float raises ZeroDivisionError; that of a numpy.float64 gives inf, or nan
\* when the float hedge_energy is itself 0, and math.floor raises
\* OverflowError on inf and ValueError on nan.  The key names the lot size.
FloorOfQuotient(asia_netback, coverage_pct, lot_mmbtu, key, floats) ==
    IF ~RIsZero(lot_mmbtu)
    THEN Return(Lots(asia_netback, coverage_pct, lot_mmbtu, floats))
    ELSE IF NumberType(asia_netback) = "float"
    THEN Raise("ZeroDivisionError", key)
    ELSE IF FloatHedgeEnergy(floats.delivered_energy_mmbtu, coverage_pct).sign = 0
    THEN Raise("ValueError", key)
    ELSE Raise("OverflowError", key)

\* Mutant: the two lot counts on the wrong legs.
DivertHedgeLegsSwapped(jkm_lots, ttf_lots) ==
    <<[leg |-> "LONG", instrument |-> "JKM", lots |-> ttf_lots],
      [leg |-> "SHORT", instrument |-> "TTF", lots |-> jkm_lots]>>

\* The hedge_legs list of the DIVERT ticket.
DivertHedgeLegs(jkm_lots, ttf_lots) ==
    <<[leg |-> "LONG", instrument |-> "JKM", lots |-> jkm_lots],
      [leg |-> "SHORT", instrument |-> "TTF", lots |-> ttf_lots]>>

\* The TradeTicket of _create_divert_ticket.
DivertTicket(self, date, delta_netback_raw, delta_netback_adj, europe_netback, asia_netback, jkm_lots, ttf_lots) ==
    [timestamp |-> date,
     decision |-> "DIVERT",
     delta_netback_raw_usd |-> delta_netback_raw,
     delta_netback_adj_usd |-> delta_netback_adj,
     decision_buffer_usd |-> self.decision_buffer_usd,
     hedge_legs |-> DivertHedgeLegs(jkm_lots, ttf_lots),
     jkm_lots |-> jkm_lots,
     ttf_lots |-> ttf_lots,
     hedge_energy_mmbtu |-> HedgeEnergy(self, asia_netback),
     netback_europe_usd |-> europe_netback.netback_usd,
     netback_asia_usd |-> asia_netback.netback_usd]

\* _create_divert_ticket once both lot counts are computed or one of the
\* two divisions has raised, the JKM division being the first.
DivertTicketOf(self, date, delta_netback_raw, delta_netback_adj, europe_netback, asia_netback, jkm_lots, ttf_lots) ==
    IF Raised(jkm_lots) THEN jkm_lots
    ELSE IF Raised(ttf_lots) THEN ttf_lots
    ELSE Return(DivertTicket(self, date, delta_netback_raw, delta_netback_adj,
                             europe_netback, asia_netback,
                             jkm_lots.value, ttf_lots.value))

\* _create_divert_ticket
CreateDivertTicket(self, date, delta_netback_raw, delta_netback_adj, europe_netback, asia_netback, floats) ==
    DivertTicketOf(self, date, delta_netback_raw, delta_netback_adj,
                   europe_netback, asia_netback,
                   FloorOfQuotient(asia_netback, self.coverage_pct,
                                   self.jkm_lot_mmbtu, "jkm_lot_mmbtu", floats),
                   FloorOfQuotient(asia_netback, self.coverage_pct,
                                   self.ttf_lot_mmbtu, "ttf_lot_mmbtu", floats))

\* _create_keep_ticket: no hedge.
CreateKeepTicket(self, date, delta_netback_raw, delta_netback_adj, europe_netback, asia_netback) ==
    Return([timestamp |-> date,
            decision |-> "KEEP",
            delta_netback_raw_usd |-> delta_netback_raw,
            delta_netback_adj_usd |-> delta_netback_adj,
            decision_buffer_usd |-> self.decision_buffer_usd,
            hedge_legs |-> None,
            jkm_lots |-> None,
            ttf_lots |-> None,
            hedge_energy_mmbtu |-> None,
            netback_europe_usd |-> europe_netback.netback_usd,
            netback_asia_usd |-> asia_netback.netback_usd])

\* The DecisionResult of evaluate (lines 118-129), or the exception the
\* making of the ticket raised.
DecisionResultOf(self, date, europe_netback, asia_netback, delta_netback_raw, delta_netback_adj, decision, trade_ticket) ==
    IF Raised(trade_ticket)
    THEN trade_ticket
    ELSE Return([date |-> date,
                 europe_netback |-> europe_netback,
                 asia_netback |-> asia_netback,
                 delta_netback_raw_usd |-> delta_netback_raw,
                 delta_netback_adj_usd |-> delta_netback_adj,
                 decision |-> decision,
                 trade_ticket |-> trade_ticket.value,
                 basis_adjustment_pct |-> self.basis_adjustment_pct,
                 operational_risk_buffer_usd |-> self.operational_risk_buffer_usd,
                 decision_buffer_usd |-> self.decision_buffer_usd])

\* Lines 99-129: the ticket of the decision taken, then the result.
EvaluateDecided(self, date, europe_netback, asia_netback, delta_netback_raw, delta_netback_adj, decision, floats) ==
    DecisionResultOf(self, date, europe_netback, asia_netback, delta_netback_raw,
                     delta_netback_adj, decision,
                     IF decision = "DIVERT"
                     THEN CreateDivertTicket(self, date, delta_netback_raw,
                                             delta_netback_adj, europe_netback,
                                             asia_netback, floats)
                     ELSE CreateKeepTicket(self, date, delta_netback_raw,
                                           delta_netback_adj, europe_netback,
                                           asia_netback))

\* Lines 98-129: the decision rule on the adjusted delta, then the rest.
EvaluateAdjusted(self, date, europe_netback, asia_netback, delta_netback_raw, delta_netback_adj, floats) ==
    EvaluateDecided(self, date, europe_netback, asia_netback, delta_netback_raw,
                    delta_netback_adj,
                    DecisionRule(self, europe_netback, asia_netback, delta_netback_adj,
                                 floats),
                    floats)

\* Lines 92-129: the adjusted delta of the raw one, then the rest.
EvaluateRaw(self, date, europe_netback, asia_netback, delta_netback_raw, floats) ==
    EvaluateAdjusted(self, date, europe_netback, asia_netback, delta_netback_raw,
                     DeltaNetbackAdj(self, delta_netback_raw), floats)

\* DecisionEngine.evaluate, whole: deltas, rule, ticket, DecisionResult, on
\* two netbacks and the floats they hold.  No parameter is validated, here
\* or in __init__.
EvaluateFloats(self, date, europe_netback, asia_netback, floats) ==
    EvaluateRaw(self, date, europe_netback, asia_netback,
                DeltaNetbackRaw(europe_netback, asia_netback), floats)

\* DecisionEngine.evaluate on two netbacks a caller built.
DecisionEngineEvaluate(self, date, europe_netback, asia_netback) ==
    EvaluateFloats(self, date, europe_netback, asia_netback,
                   FloatsOf(europe_netback, asia_netback))

----------------------------------------------------------------------------
(* engine/run.py: run_trade_decision, and decide_and_size, which it calls. *)
(* decide_and_size is imported from engine.decision by run.py, risk.py and *)
(* the tests, and is not defined there: it is modelled from the            *)
(* specification of the decision operation (section 4.3).                  *)

\* Section 4.3: ratio parameters lie in [0,1], buffers and lot sizes are > 0.
DecideParamsValid(basis_haircut_pct, ops_buffer_usd, decision_buffer_usd, ttf_lot_mmbtu, jkm_lot_mmbtu) ==
    /\ RLeq(R(0), basis_haircut_pct) /\ RLeq(basis_haircut_pct, R(1))
    /\ RGt(ops_buffer_usd, R(0))
    /\ RGt(decision_buffer_usd, R(0))
    /\ RGt(ttf_lot_mmbtu, R(0))
    /\ RGt(jkm_lot_mmbtu, R(0))

\* Section 4.3: delta_raw = netback_b - netback_a; delta_adj = delta_raw *
\* (1 - haircut) - ops buffer; DIVERT iff delta_adj >= decision buffer;
\* lots_x = floor(hedge_energy / lot_size_x); InvalidConfigError on invalid
\* parameters, before anything is computed.
DecideAndSize(europe_netback_usd, asia_netback_usd, hedge_energy_mmbtu, basis_haircut_pct, ops_buffer_usd, decision_buffer_usd, ttf_lot_mmbtu, jkm_lot_mmbtu) ==
    IF ~DecideParamsValid(basis_haircut_pct, ops_buffer_usd, decision_buffer_usd,
                          ttf_lot_mmbtu, jkm_lot_mmbtu)
    THEN Raise("InvalidConfigError", "decide_and_size")
    ELSE LET delta_raw == RSub(asia_netback_usd, europe_netback_usd)
             delta_adj == RSub(RMul(delta_raw, RSub(R(1), basis_haircut_pct)),
                               ops_buffer_usd)
         IN  Return([delta_netback_raw_usd |-> delta_raw,
                     delta_netback_adj_usd |-> delta_adj,
                     basis_haircut_pct |-> basis_haircut_pct,
                     ops_buffer_usd |-> ops_buffer_usd,
                     decision_buffer_usd |-> decision_buffer_usd,
                     decision |-> IF RGeq(delta_adj, decision_buffer_usd)
                                  THEN "DIVERT" ELSE "KEEP",
                     hedge_energy_mmbtu |-> hedge_energy_mmbtu,
                     lots_ttf |-> Floor(RDiv(hedge_energy_mmbtu, ttf_lot_mmbtu)),
                     lots_jkm |-> Floor(RDiv(hedge_energy_mmbtu, jkm_lot_mmbtu))])

\* hedge_energy_mmbtu = max(eu.delivered_energy_mmbtu, asia.delivered_energy_mmbtu)
\*                      * coverage_pct
RunHedgeEnergy(eu, asia, coverage_pct) ==
    RMul(RMax(eu.delivered_energy_mmbtu, asia.delivered_energy_mmbtu), coverage_pct)

\* The "hedge_legs" entry of the trade pack: a list of two legs whatever the
\* decision, reversed when it is not DIVERT.
RunHedgeLegs(decision) ==
    IF decision.decision = "DIVERT"
    THEN <<[leg |-> "BUY JKM", lots |-> decision.lots_jkm],
           [leg |-> "SELL TTF", lots |-> decision.lots_ttf]>>
    ELSE <<[leg |-> "BUY TTF", lots |-> decision.lots_ttf],
           [leg |-> "SELL JKM", lots |-> decision.lots_jkm]>>

\* The "europe" and "asia" entries of the trade pack.
PackOfNetback(nb) ==
    [netback_usd |-> nb.netback_usd,
     revenue_usd |-> nb.revenue_usd,
     voyage_cost_usd |-> nb.voyage_cost_usd,
     carbon_cost_usd |-> nb.carbon_cost_usd,
     delivered_energy_mmbtu |-> nb.delivered_energy_mmbtu,
     voyage_days |-> nb.voyage_details.voyage_days]

\* The "inputs" entry of the trade pack: the thirteen arguments after the
\* tables and the three with defaults, each under its own name.
RunInputs(load_port, europe_port, asia_port, vessel_class, cargo_capacity_m3, ttf_price, jkm_price, freight_rate_usd_day, fuel_price_usd_t, eua_price_usd_t, basis_haircut_pct, ops_buffer_usd, decision_buffer_usd, coverage_pct, ttf_lot_mmbtu, jkm_lot_mmbtu) ==
    [load_port |-> load_port,
     europe_port |-> europe_port,
     asia_port |-> asia_port,
     vessel_class |-> vessel_class,
     cargo_capacity_m3 |-> cargo_capacity_m3,
     ttf_price |-> ttf_price,
     jkm_price |-> jkm_price,
     freight_rate_usd_day |-> freight_rate_usd_day,
     fuel_price_usd_t |-> fuel_price_usd_t,
     eua_price_usd_t |-> eua_price_usd_t,
     basis_haircut_pct |-> basis_haircut_pct,
     ops_buffer_usd |-> ops_buffer_usd,
     decision_buffer_usd |-> decision_buffer_usd,
     coverage_pct |-> coverage_pct,
     ttf_lot_mmbtu |-> ttf_lot_mmbtu,
     jkm_lot_mmbtu |-> jkm_lot_mmbtu]

\* The trade pack run_trade_decision returns, built from its arguments, the
\* two netbacks and the decision.
RunTradePack(inputs, eu, asia, decision) ==
    [inputs |-> inputs,
     europe |-> PackOfNetback(eu),
     asia |-> PackOfNetback(asia),
     decision |-> [delta_raw_usd |-> decision.delta_netback_raw_usd,
                   delta_adj_usd |-> decision.delta_netback_adj_usd,
                   decision |-> decision.decision,
                   hedge_energy_mmbtu |-> decision.hedge_energy_mmbtu,
                   lots_ttf |-> decision.lots_ttf,
                   lots_jkm |-> decision.lots_jkm],
     hedge_legs |-> RunHedgeLegs(decision)]

\* run_trade_decision once both netbacks are computed: the hedge energy,
\* decide_and_size, the trade pack; an exception of decide_and_size
\* propagates.
RunDecideAndPack(inputs, eu, asia) ==
    LET decision == DecideAndSize(eu.netback_usd, asia.netback_usd,
                                  RunHedgeEnergy(eu, asia, inputs.coverage_pct),
                                  inputs.basis_haircut_pct, inputs.ops_buffer_usd,
                                  inputs.decision_buffer_usd, inputs.ttf_lot_mmbtu,
                                  inputs.jkm_lot_mmbtu)
    IN  IF Raised(decision) THEN decision
        ELSE Return(RunTradePack(inputs, eu, asia, decision.value))

\* run_trade_decision: a calculator over the tables passed in, both
\* netbacks, the hedge energy, decide_and_size, the trade pack.  It checks
\* no parameter itself; exceptions of the two calls propagate.
RunTradeDecisionOf(routes, vessels, carbon_params, load_port, europe_port, asia_port, vessel_class, cargo_capacity_m3, ttf_price, jkm_price, freight_rate_usd_day, fuel_price_usd_t, eua_price_usd_t, basis_haircut_pct, ops_buffer_usd, decision_buffer_usd, coverage_pct, ttf_lot_mmbtu, jkm_lot_mmbtu) ==
    LET netbacks == CompareNetbacksOf(NetbackCalculatorInit(routes, vessels, carbon_params),
                                      load_port, europe_port, asia_port, vessel_class,
                                      cargo_capacity_m3, ttf_price, jkm_price,
                                      freight_rate_usd_day, fuel_price_usd_t,
                                      eua_price_usd_t)
    IN  IF Raised(netbacks) THEN netbacks
        ELSE RunDecideAndPack(RunInputs(load_port, europe_port, asia_port, vessel_class,
                                        cargo_capacity_m3, ttf_price, jkm_price,
                                        freight_rate_usd_day, fuel_price_usd_t,
                                        eua_price_usd_t, basis_haircut_pct,
                                        ops_buffer_usd, decision_buffer_usd,
                                        coverage_pct, ttf_lot_mmbtu, jkm_lot_mmbtu),
                              netbacks.value[1], netbacks.value[2])

----------------------------------------------------------------------------
(* engine/risk.py: RiskAnalyzer                                            *)

\* The defaults of RiskAnalyzer.__init__.
RISK_DEFAULT_BASIS_HAIRCUT_PCT == Rat(5, 100)
RISK_DEFAULT_OPS_BUFFER_USD == 50000
RISK_DEFAULT_DECISION_BUFFER_USD == 500000

\* The lot size decide_and_size takes when the caller passes none
\* (section 4.3: lot_size_a=10000, lot_size_b=10000).
DECIDE_DEFAULT_LOT_MMBTU == 10000

RiskAnalyzerRequired ==
    {"netback_calculator", "stress_spread_usd", "stress_freight_usd_per_day",
     "stress_eua_usd"}

RiskAnalyzerOptional == {"basis_haircut_pct", "ops_buffer_usd", "decision_buffer_usd"}

\* A keyword argument, or the default of the parameter when it is not passed.
KwargOr(kwargs, name, default) ==
    IF name \in DOMAIN kwargs THEN kwargs[name] ELSE default

\* RiskAnalyzer(**kwargs): a keyword that is no parameter of __init__, or a
\* missing required one, is a TypeError of the call; otherwise the fields are
\* the arguments, the three decision-rule fields defaulted when not passed.
RiskAnalyzerInit(kwargs) ==
    IF ~(DOMAIN kwargs \subseteq (RiskAnalyzerRequired \cup RiskAnalyzerOptional))
    THEN Raise("TypeError", "unexpected keyword argument")
    ELSE IF ~(RiskAnalyzerRequired \subseteq DOMAIN kwargs)
    THEN Raise("TypeError", "missing required argument")
    ELSE Return(
        [netback_calculator |-> kwargs.netback_calculator,
         stress_spread_usd |-> kwargs.stress_spread_usd,
         stress_freight_usd_per_day |-> kwargs.stress_freight_usd_per_day,
         stress_eua_usd |-> kwargs.stress_eua_usd,
         basis_haircut_pct |->
             KwargOr(kwargs, "basis_haircut_pct", RISK_DEFAULT_BASIS_HAIRCUT_PCT),
         ops_buffer_usd |->
             KwargOr(kwargs, "ops_buffer_usd", R(RISK_DEFAULT_OPS_BUFFER_USD)),
         decision_buffer_usd |->
             KwargOr(kwargs, "decision_buffer_usd", R(RISK_DEFAULT_DECISION_BUFFER_USD))])

\* app.py main: the calculator, the decision engine and the three stress
\* magnitudes of the config, and no decision-rule argument.
AppRiskAnalyzerKwargs(netback_calc, decision_engine, stress_spread_usd, stress_freight_usd_per_day, stress_eua_usd) ==
    [netback_calculator |-> netback_calc,
     decision_engine |-> decision_engine,
     stress_spread_usd |-> stress_spread_usd,
     stress_freight_usd_per_day |-> stress_freight_usd_per_day,
     stress_eua_usd |-> stress_eua_usd]

\* dashboard.py and tests/test_risk.py: the decision-rule parameters of the
\* config passed explicitly.
DashboardRiskAnalyzerKwargs(netback_calc, stress_spread_usd, stress_freight_usd_per_day, stress_eua_usd, basis_haircut_pct, ops_buffer_usd, decision_buffer_usd) ==
    [netback_calculator |-> netback_calc,
     stress_spread_usd |-> stress_spread_usd,
     stress_freight_usd_per_day |-> stress_freight_usd_per_day,
     stress_eua_usd |-> stress_eua_usd,
     basis_haircut_pct |-> basis_haircut_pct,
     ops_buffer_usd |-> ops_buffer_usd,
     decision_buffer_usd |-> decision_buffer_usd]

\* The required arguments alone: what the call of app.py is without the
\* keyword __init__ does not have.
RequiredRiskAnalyzerKwargs(netback_calc, stress_spread_usd, stress_freight_usd_per_day, stress_eua_usd) ==
    [netback_calculator |-> netback_calc,
     stress_spread_usd |-> stress_spread_usd,
     stress_freight_usd_per_day |-> stress_freight_usd_per_day,
     stress_eua_usd |-> stress_eua_usd]

StressScenario(name, spread_shock_usd, freight_shock_usd_day, eua_shock_usd) ==
    [name |-> name, spread_shock_usd |-> spread_shock_usd,
     freight_shock_usd_day |-> freight_shock_usd_day,
     eua_shock_usd |-> eua_shock_usd]

\* create_scenarios with "Freight Spike" and "Freight Drop" exchanged.
CreateScenariosFreightSwapped(self) ==
    <<StressScenario("Spread Collapse", RNeg(self.stress_spread_usd), R(0), R(0)),
      StressScenario("Spread Widen", self.stress_spread_usd, R(0), R(0)),
      StressScenario("Freight Drop", R(0), RNeg(self.stress_freight_usd_per_day), R(0)),
      StressScenario("Freight Spike", R(0), self.stress_freight_usd_per_day, R(0)),
      StressScenario("EUA Spike", R(0), R(0), self.stress_eua_usd),
      StressScenario("Combined Adverse", RNeg(self.stress_spread_usd),
                     self.stress_freight_usd_per_day, self.stress_eua_usd)>>

\* RiskAnalyzer.create_scenarios; a shock not named is the dataclass
\* default 0.0.
CreateScenarios(self) ==
    <<StressScenario("Spread Collapse", RNeg(self.stress_spread_usd), R(0), R(0)),
      StressScenario("Spread Widen", self.stress_spread_usd, R(0), R(0)),
      StressScenario("Freight Spike", R(0), self.stress_freight_usd_per_day, R(0)),
      StressScenario("Freight Drop", R(0), RNeg(self.stress_freight_usd_per_day), R(0)),
      StressScenario("EUA Spike", R(0), R(0), self.stress_eua_usd),
      StressScenario("Combined Adverse", RNeg(self.stress_spread_usd),
                     self.stress_freight_usd_per_day, self.stress_eua_usd)>>

\* pnl_impact = stressed delta_adj - base delta_adj, and its reverse.
PnlImpactReversed(stressed_result, base_result) ==
    RSub(base_result.delta_netback_adj_usd, stressed_result.delta_netback_adj_usd)

PnlImpact(stressed_result, base_result) ==
    RSub(stressed_result.delta_netback_adj_usd, base_result.delta_netback_adj_usd)

StressResultOfLossOnly(scenario, base_result, stressed_result) ==
    [scenario |-> scenario,
     base_delta_netback_adj |-> base_result.delta_netback_adj_usd,
     stressed_delta_netback_adj |-> stressed_result.delta_netback_adj_usd,
     pnl_impact_usd |-> IF RLt(PnlImpact(stressed_result, base_result), R(0))
                        THEN PnlImpact(stressed_result, base_result) ELSE R(0),
     decision_change |-> stressed_result.decision # base_result.decision,
     base_decision |-> base_result.decision,
     stressed_decision |-> stressed_result.decision]

\* The StressResult appended for one scenario.
StressResultOf(scenario, base_result, stressed_result) ==
    [scenario |-> scenario,
     base_delta_netback_adj |-> base_result.delta_netback_adj_usd,
     stressed_delta_netback_adj |-> stressed_result.delta_netback_adj_usd,
     pnl_impact_usd |-> PnlImpact(stressed_result, base_result),
     decision_change |-> stressed_result.decision # base_result.decision,
     base_decision |-> base_result.decision,
     stressed_decision |-> stressed_result.decision]

\* The fresh decision of one scenario from the stressed netbacks, and its
\* StressResult; an exception of decide_and_size propagates.
StressDecide(self, scenario, base_result, europe_netback, asia_netback) ==
    LET stressed_result ==
            DecideAndSize(europe_netback.netback_usd, asia_netback.netback_usd,
                          asia_netback.delivered_energy_mmbtu,
                          self.basis_haircut_pct, self.ops_buffer_usd,
                          self.decision_buffer_usd,
                          R(DECIDE_DEFAULT_LOT_MMBTU), R(DECIDE_DEFAULT_LOT_MMBTU))
    IN  IF Raised(stressed_result) THEN stressed_result
        ELSE Return(StressResultOf(scenario, base_result, stressed_result.value))

\* One turn of the loop of run_stress_test: the shocks added to the JKM
\* price, the freight rate and the EUA price, both netbacks recomputed, the
\* decision re-evaluated.
StressOneShockingTtf(self, scenario, base_result, load_port, europe_port, asia_port, vessel_class, cargo_capacity_m3, ttf_price, jkm_price, freight_rate_usd_day, fuel_price_usd_t, eua_price_usd_t) ==
    LET netbacks ==
            CompareNetbacksOf(self.netback_calculator, load_port, europe_port,
                              asia_port, vessel_class, cargo_capacity_m3, RAdd(ttf_price, scenario.spread_shock_usd),
                              jkm_price,
                              RAdd(freight_rate_usd_day, scenario.freight_shock_usd_day),
                              fuel_price_usd_t,
                              RAdd(eua_price_usd_t, scenario.eua_shock_usd))
    IN  IF Raised(netbacks) THEN netbacks
        ELSE StressDecide(self, scenario, base_result,
                          netbacks.value[1], netbacks.value[2])

StressOne(self, scenario, base_result, load_port, europe_port, asia_port, vessel_class, cargo_capacity_m3, ttf_price, jkm_price, freight_rate_usd_day, fuel_price_usd_t, eua_price_usd_t) ==
    LET netbacks ==
            CompareNetbacksOf(self.netback_calculator, load_port, europe_port,
                              asia_port, vessel_class, cargo_capacity_m3, ttf_price,
                              RAdd(jkm_price, scenario.spread_shock_usd),
                              RAdd(freight_rate_usd_day, scenario.freight_shock_usd_day),
                              fuel_price_usd_t,
                              RAdd(eua_price_usd_t, scenario.eua_shock_usd))
    IN  IF Raised(netbacks) THEN netbacks
        ELSE StressDecide(self, scenario, base_result,
                          netbacks.value[1], netbacks.value[2])

\* min(r.pnl_impact_usd for r in stress_results), and max in its place.
RECURSIVE MaxPnlImpact(_, _)
MaxPnlImpact(stress_results, n) ==
    IF n = 1 THEN stress_results[1].pnl_impact_usd
    ELSE LET rest == MaxPnlImpact(stress_results, n - 1)
         IN  IF RGt(stress_results[n].pnl_impact_usd, rest)
             THEN stress_results[n].pnl_impact_usd ELSE rest

WorstCasePnlMax(stress_results) == MaxPnlImpact(stress_results, Len(stress_results))

RECURSIVE MinPnlImpact(_, _)
MinPnlImpact(stress_results, n) ==
    IF n = 1 THEN stress_results[1].pnl_impact_usd
    ELSE LET rest == MinPnlImpact(stress_results, n - 1)
         IN  IF RLt(stress_results[n].pnl_impact_usd, rest)
             THEN stress_results[n].pnl_impact_usd ELSE rest

WorstCasePnl(stress_results) == MinPnlImpact(stress_results, Len(stress_results))

\* [r.scenario.name for r in stress_results if r.decision_change]
RECURSIVE ScenariosCausingFlip(_, _)
ScenariosCausingFlip(stress_results, n) ==
    IF n = 0 THEN <<>>
    ELSE IF stress_results[n].decision_change
    THEN Append(ScenariosCausingFlip(stress_results, n - 1),
                stress_results[n].scenario.name)
    ELSE ScenariosCausingFlip(stress_results, n - 1)

\* The RiskPack of run_stress_test, or the exception of the first scenario
\* that raised one.
RiskPackOf(base_result, outcomes) ==
    IF \E i \in DOMAIN outcomes : Raised(outcomes[i])
    THEN outcomes[CHOOSE i \in DOMAIN outcomes :
                      /\ Raised(outcomes[i])
                      /\ \A j \in 1..(i - 1) : ~Raised(outcomes[j])]
    ELSE LET stress_results == Rows([i \in DOMAIN outcomes |-> outcomes[i].value])
         IN  Return([base_result |-> base_result,
                     stress_results |-> stress_results,
                     worst_case_pnl_impact |-> WorstCasePnl(stress_results),
                     scenarios_causing_flip |->
                         ScenariosCausingFlip(stress_results, Len(stress_results))])

\* RiskAnalyzer.run_stress_test
RunStressTestOf(self, base_result, load_port, europe_port, asia_port, vessel_class, cargo_capacity_m3, ttf_price, jkm_price, freight_rate_usd_day, fuel_price_usd_t, eua_price_usd_t) ==
    RiskPackOf(base_result,
               Rows([i \in 1..Len(CreateScenarios(self)) |->
                   StressOne(self, CreateScenarios(self)[i], base_result, load_port,
                             europe_port, asia_port, vessel_class, cargo_capacity_m3,
                             ttf_price, jkm_price, freight_rate_usd_day,
                             fuel_price_usd_t, eua_price_usd_t)]))

----------------------------------------------------------------------------
(* engine/backtest.py: Backtester.run_backtest                             *)

\* One row of the decision history.
HistoryRow(r) ==
    [date |-> r.date,
     decision |-> r.decision,
     delta_netback_raw_usd |-> r.delta_netback_raw_usd,
     delta_netback_adj_usd |-> r.delta_netback_adj_usd,
     netback_europe_usd |-> r.europe_netback.netback_usd,
     netback_asia_usd |-> r.asia_netback.netback_usd,
     triggered |-> IF r.decision = "DIVERT" THEN 1 ELSE 0]

HistoryData(results) == Rows([i \in 1..Len(results) |-> HistoryRow(results[i])])

\* sort_values("date"): rows in date order, rows of one date in input order
\* (the sort pandas runs on a frame this short is an insertion sort).
RECURSIVE InsertByDate(_, _)
InsertByDate(row, sorted) ==
    IF Len(sorted) = 0 THEN <<row>>
    ELSE IF row.date < Head(sorted).date THEN <<row>> \o sorted
    ELSE <<Head(sorted)>> \o InsertByDate(row, Tail(sorted))

SortValuesDateUnsorted(rows, n) == rows

RECURSIVE SortValuesDate(_, _)
SortValuesDate(rows, n) ==
    IF n = 0 THEN <<>> ELSE InsertByDate(rows[n], SortValuesDate(rows, n - 1))

TotalObsLessOne(decision_history) == Len(decision_history) - 1

TotalObs(decision_history) == Len(decision_history)

\* decision_history["triggered"].sum()
RECURSIVE SumTriggered(_, _)
SumTriggered(decision_history, n) ==
    IF n = 0 THEN 0
    ELSE SumTriggered(decision_history, n - 1) + decision_history[n].triggered

HitRateOfKept(triggered, total_obs) ==
    IF total_obs > 0 THEN Rat(total_obs - triggered, total_obs) ELSE R(0)

HitRate(triggered, total_obs) ==
    IF total_obs > 0 THEN Rat(triggered, total_obs) ELSE R(0)

IsTriggered(row) == row.triggered = 1

TriggeredRowsAll(decision_history) == decision_history

TriggeredRows(decision_history) == SelectSeq(decision_history, IsTriggered)

RECURSIVE SumDeltaAdj(_, _)
SumDeltaAdj(rows, n) ==
    IF n = 0 THEN R(0)
    ELSE RAdd(SumDeltaAdj(rows, n - 1), rows[n].delta_netback_adj_usd)

AverageUplift(triggered_rows) ==
    IF Len(triggered_rows) > 0
    THEN RDiv(SumDeltaAdj(triggered_rows, Len(triggered_rows)), R(Len(triggered_rows)))
    ELSE R(0)

TotalUplift(triggered_rows) ==
    IF Len(triggered_rows) > 0
    THEN SumDeltaAdj(triggered_rows, Len(triggered_rows))
    ELSE R(0)

PnlOfEveryRow(row) == row.delta_netback_adj_usd

\* The pnl column: the adjusted delta of a triggered row, 0 of any other.
Pnl(row) == IF row.triggered = 1 THEN row.delta_netback_adj_usd ELSE R(0)

CumulativePnlNoCarry(decision_history, t) ==
    IF t = 0 THEN R(0) ELSE Pnl(decision_history[t])

\* cumsum() of the pnl column, at row t.
RECURSIVE CumulativePnl(_, _)
CumulativePnl(decision_history, t) ==
    IF t = 0 THEN R(0)
    ELSE RAdd(CumulativePnl(decision_history, t - 1), Pnl(decision_history[t]))

WithPnl(row, pnl, cumulative_pnl) ==
    [date |-> row.date,
     decision |-> row.decision,
     delta_netback_raw_usd |-> row.delta_netback_raw_usd,
     delta_netback_adj_usd |-> row.delta_netback_adj_usd,
     netback_europe_usd |-> row.netback_europe_usd,
     netback_asia_usd |-> row.netback_asia_usd,
     triggered |-> row.triggered,
     pnl |-> pnl,
     cumulative_pnl |-> cumulative_pnl]

DecisionHistory(sorted) ==
    Rows([t \in 1..Len(sorted) |->
             WithPnl(sorted[t], Pnl(sorted[t]), CumulativePnl(sorted, t))])

EquityCurve(decision_history) ==
    Rows([t \in 1..Len(decision_history) |->
             [date |-> decision_history[t].date,
              cumulative_pnl |-> decision_history[t].cumulative_pnl]])

RunningMaxCurrent(decision_history, t) == decision_history[t].cumulative_pnl

\* cummax() of the cumulative pnl, at row t >= 1.
RECURSIVE RunningMax(_, _)
RunningMax(decision_history, t) ==
    IF t = 1 THEN decision_history[1].cumulative_pnl
    ELSE RMax(RunningMax(decision_history, t - 1), decision_history[t].cumulative_pnl)

Drawdown(decision_history, t) ==
    RSub(RunningMax(decision_history, t), decision_history[t].cumulative_pnl)

RECURSIVE MaxDrawdownUpTo(_, _)
MaxDrawdownUpTo(decision_history, t) ==
    IF t = 1 THEN Drawdown(decision_history, 1)
    ELSE RMax(MaxDrawdownUpTo(decision_history, t - 1), Drawdown(decision_history, t))

CalculateMaxDrawdown(decision_history) ==
    IF Len(decision_history) = 0 THEN R(0)
    ELSE MaxDrawdownUpTo(decision_history, Len(decision_history))

SHARPE_MIN_OBSERVATIONS == 5
TRADING_DAYS_PER_YEAR == 252

\* returns.mean()
MeanPnl(decision_history) ==
    RDiv(CumulativePnl(decision_history, Len(decision_history)),
         R(Len(decision_history)))

\* The sum of the squared deviations of the first n pnl values from mean.
RECURSIVE SumSquaredDeviations(_, _, _)
SumSquaredDeviations(decision_history, mean, n) ==
    IF n = 0 THEN R(0)
    ELSE RAdd(SumSquaredDeviations(decision_history, mean, n - 1),
              RMul(RSub(decision_history[n].pnl, mean),
                   RSub(decision_history[n].pnl, mean)))

\* returns.std() squared: the sample variance (ddof = 1).
VariancePnl(decision_history) ==
    RDiv(SumSquaredDeviations(decision_history, MeanPnl(decision_history),
                              Len(decision_history)),
         R(Len(decision_history) - 1))

----------------------------------------------------------------------------
(* returns.std() > 0 as binary64 arithmetic decides it.  pandas computes   *)
(* avg = values.sum() / count and then the sum of (avg - value)^2; the sum *)
(* of fewer than eight values is a left-to-right loop of additions, each   *)
(* rounded to nearest, ties to even.  When the values differ, some          *)
(* deviation is not zero and std is positive, as in exact arithmetic.  When *)
(* they are all one value x, std is positive exactly when the rounded mean  *)
(* is not x.                                                                *)

\* values.sum() over n copies of x: 0.0 + x + x + ... + x
RECURSIVE FloatSum(_, _)
FloatSum(x, n) == IF n = 1 THEN x ELSE FloatAdd(FloatSum(x, n - 1), x)

\* a / count
FloatDivide(a, count) == FloatDiv(a, ToDouble(R(count)))

\* avg of n copies of x
FloatMean(x, n) == FloatDivide(FloatSum(x, n), n)

\* returns.std() > 0
StdPositive(decision_history) ==
    IF RGt(VariancePnl(decision_history), R(0)) THEN TRUE
    ELSE IF RIsZero(decision_history[1].pnl) THEN FALSE
    ELSE FloatMean(ToDouble(RAbs(decision_history[1].pnl)), Len(decision_history))
             # ToDouble(RAbs(decision_history[1].pnl))

----------------------------------------------------------------------------

NoSharpe == [kind |-> "None"]

\* (mean / std) * sqrt(252) is irrational; the number is held as its sign
\* and its square, 252 * mean^2 / std^2.
SharpeNumber(mean, variance) ==
    [kind |-> "number",
     sign |-> IF RLt(mean, R(0)) THEN -1 ELSE IF RIsZero(mean) THEN 0 ELSE 1,
     squared |-> RDiv(RMul(R(TRADING_DAYS_PER_YEAR), RMul(mean, mean)), variance)]

\* The number when the values are all one value and std is what rounding has
\* left of it: its sign is that of the mean, its size is not carried.
SharpeOfRoundingResidue(mean) ==
    [kind |-> "number",
     sign |-> IF RLt(mean, R(0)) THEN -1 ELSE 1,
     std |-> "rounding residue"]

SharpeRatio(decision_history) ==
    IF Len(decision_history) >= SHARPE_MIN_OBSERVATIONS
    THEN IF StdPositive(decision_history)
         THEN IF RGt(VariancePnl(decision_history), R(0))
              THEN SharpeNumber(MeanPnl(decision_history),
                                VariancePnl(decision_history))
              ELSE SharpeOfRoundingResidue(MeanPnl(decision_history))
         ELSE NoSharpe
    ELSE NoSharpe

BacktestMetrics(sorted, decision_history, triggered, triggered_rows) ==
    [total_observations |-> TotalObs(sorted),
     triggered_trades |-> triggered,
     hit_rate |-> HitRate(triggered, TotalObs(sorted)),
     average_uplift_usd |-> AverageUplift(triggered_rows),
     total_uplift_usd |-> TotalUplift(triggered_rows),
     max_drawdown_usd |-> CalculateMaxDrawdown(decision_history),
     sharpe_ratio |-> SharpeRatio(decision_history)]

BacktestResultOf(sorted, decision_history) ==
    [metrics |-> BacktestMetrics(sorted, decision_history,
                                 SumTriggered(sorted, Len(sorted)),
                                 TriggeredRows(sorted)),
     equity_curve |-> EquityCurve(decision_history),
     decision_history |-> decision_history]

BacktestSorted(sorted) == BacktestResultOf(sorted, DecisionHistory(sorted))

RunBacktestOf(results) ==
    IF Len(results) = 0
    THEN Raise("ValueError", "No results to backtest")
    ELSE Return(BacktestSorted(SortValuesDate(HistoryData(results), Len(results))))

----------------------------------------------------------------------------
(* engine/validation.py: validate_config                                   *)

\* A config value is a number, the float NaN, or a string that float()
\* cannot parse.
Num(r) == [t |-> "num", v |-> r]
NaN == [t |-> "nan", v |-> R(0)]
Text == [t |-> "str", v |-> R(0)]

\* float(x) raises ValueError on an unparsable string.
FloatRaises(x) == x.t = "str"

\* Float comparisons: every comparison with NaN is false.
FLeq(a, b) == a.t = "num" /\ b.t = "num" /\ RLeq(a.v, b.v)
FLt(a, b) == a.t = "num" /\ b.t = "num" /\ RLt(a.v, b.v)

RequiredKeys ==
    <<"DECISION_BUFFER_USD", "OPS_BUFFER_USD", "BASIS_ADJUSTMENT", "COVERAGE_PCT",
      "TTF_LOT_MMBTU", "JKM_LOT_MMBTU", "STRESS_SPREAD_USD",
      "STRESS_FREIGHT_USD_PER_DAY", "STRESS_EUA_USD">>
PositiveKeys ==
    <<"DECISION_BUFFER_USD", "OPS_BUFFER_USD", "TTF_LOT_MMBTU", "JKM_LOT_MMBTU">>
NonNegativeKeys ==
    <<"STRESS_SPREAD_USD", "STRESS_FREIGHT_USD_PER_DAY", "STRESS_EUA_USD">>

\* missing = [k for k in required if k not in cfg]
MissingKeys(cfg) ==
    LET Absent(k) == k \notin DOMAIN cfg
    IN  SelectSeq(RequiredKeys, Absent)

\* not (0.0 <= x <= 1.0)
OutsideUnitInterval(x) == ~(FLeq(Num(R(0)), x) /\ FLeq(x, Num(R(1))))

\* for k in [...]: if float(cfg[k]) <= 0: raise ValueError
RECURSIVE PositiveLoop(_, _)
PositiveLoop(cfg, i) ==
    IF i > Len(PositiveKeys) THEN Return(None)
    ELSE IF FloatRaises(cfg[PositiveKeys[i]])
    THEN Raise("ValueError", <<"float", PositiveKeys[i]>>)
    ELSE IF FLeq(cfg[PositiveKeys[i]], Num(R(0)))
    THEN Raise("ValueError", <<"must be > 0", PositiveKeys[i]>>)
    ELSE PositiveLoop(cfg, i + 1)

\* for k in [...]: if float(cfg[k]) < 0: raise ValueError
RECURSIVE NonNegativeLoop(_, _)
NonNegativeLoop(cfg, i) ==
    IF i > Len(NonNegativeKeys) THEN Return(None)
    ELSE IF FloatRaises(cfg[NonNegativeKeys[i]])
    THEN Raise("ValueError", <<"float", NonNegativeKeys[i]>>)
    ELSE IF FLt(cfg[NonNegativeKeys[i]], Num(R(0)))
    THEN Raise("ValueError", <<"must be >= 0", NonNegativeKeys[i]>>)
    ELSE NonNegativeLoop(cfg, i + 1)

\* validate_config: the missing keys first, then both float conversions,
\* the two interval checks, the four positivity checks and the three
\* non-negativity checks, in that order.
ValidateConfigOf(cfg) ==
    IF MissingKeys(cfg) # <<>> THEN Raise("KeyError", MissingKeys(cfg))
    ELSE IF FloatRaises(cfg["BASIS_ADJUSTMENT"])
    THEN Raise("ValueError", <<"float", "BASIS_ADJUSTMENT">>)
    ELSE IF FloatRaises(cfg["COVERAGE_PCT"])
    THEN Raise("ValueError", <<"float", "COVERAGE_PCT">>)
    ELSE IF OutsideUnitInterval(cfg["BASIS_ADJUSTMENT"])
    THEN Raise("ValueError", <<"must be in [0,1]", "BASIS_ADJUSTMENT">>)
    ELSE IF OutsideUnitInterval(cfg["COVERAGE_PCT"])
    THEN Raise("ValueError", <<"must be in [0,1]", "COVERAGE_PCT">>)
    ELSE IF Raised(PositiveLoop(cfg, 1)) THEN PositiveLoop(cfg, 1)
    ELSE NonNegativeLoop(cfg, 1)

----------------------------------------------------------------------------
(* Reference data and per-call inputs.                                     *)

MaxUpliftSteps == 10   \* Asia netbacks 100, 110, ..., 100 + 10 * MaxUpliftSteps
MaxEnergySteps == 3    \* delivered energies -15, 0, 15, ..., 15 * MaxEnergySteps
MaxVoyageDays == 2     \* route lengths of 0, 1, ..., MaxVoyageDays days at 10 kn

Dates == {1, 2}

\* The configurations app.py main builds its engine from.  DataLoader has
\* checked that the two ratios are in [0,1] and has checked nothing else of
\* the configuration, and DecisionEngine.__init__ checks nothing: buffers of
\* zero and lot sizes of zero or below are among them.
DecisionBufferValues == {R(20), R(0)}
OpsBufferValues == {R(10), R(0)}
BasisValues == {Rat(5, 100), Rat(1, 2), R(0)}
CoverageValues == {Rat(4, 5), R(1)}
JkmLotValues == {R(10), R(0), R(-10)}
TtfLotValues == {R(25), R(0)}

\* DecisionEngine.__init__ stores its arguments unchanged.
DecisionEngineInit(decision_buffer_usd, operational_risk_buffer_usd, basis_adjustment_pct, coverage_pct, jkm_lot_mmbtu, ttf_lot_mmbtu) ==
    [decision_buffer_usd |-> decision_buffer_usd,
     operational_risk_buffer_usd |-> operational_risk_buffer_usd,
     basis_adjustment_pct |-> basis_adjustment_pct,
     coverage_pct |-> coverage_pct,
     jkm_lot_mmbtu |-> jkm_lot_mmbtu,
     ttf_lot_mmbtu |-> ttf_lot_mmbtu]

Engines ==
    {DecisionEngineInit(db, ob, ba, cv, jl, tl) :
        db \in DecisionBufferValues, ob \in OpsBufferValues, ba \in BasisValues,
        cv \in CoverageValues, jl \in JkmLotValues, tl \in TtfLotValues}

EuropeNetbackValues == {R(100)}
AsiaNetbackValues == {R(100 + 10 * k) : k \in 0..MaxUpliftSteps}
EnergyValues == {R(15 * k) : k \in (-1)..MaxEnergySteps}

\* Route rows.  From the US Gulf, Rotterdam is one day and Tokyo two days
\* away at 10 kn; from Qatar it is the other way round.
Route(load_port, discharge_port, distance_nm) ==
    [load_port |-> load_port, discharge_port |-> discharge_port,
     distance_nm |-> R(distance_nm)]

RoutesAll ==
    <<Route("US_Gulf", "Rotterdam", 240), Route("US_Gulf", "Tokyo", 480),
      Route("Qatar", "Rotterdam", 480), Route("Qatar", "Tokyo", 240)>>
\* No row to Tokyo from the US Gulf, and two rows for Qatar -> Tokyo.
RoutesGappy ==
    <<Route("US_Gulf", "Rotterdam", 240), Route("Qatar", "Tokyo", 240),
      Route("Qatar", "Rotterdam", 480), Route("Qatar", "Tokyo", 720)>>

\* Vessel rows, each with a cargo capacity of 100 m3; DataLoader admits the
\* vessel classes TFDE and MEGI and checks nothing of the boil-off rate.  The
\* boil-off of the MEGI row exceeds the cargo within a day.
Vessel(vessel_class, laden_speed_kn, boil_off_pct_per_day, fuel_consumption_tpd_laden) ==
    [vessel_class |-> vessel_class, cargo_capacity_m3 |-> R(100),
     laden_speed_kn |-> R(laden_speed_kn),
     boil_off_pct_per_day |-> R(boil_off_pct_per_day),
     fuel_consumption_tpd_laden |-> R(fuel_consumption_tpd_laden)]

VesselsAll == <<Vessel("TFDE", 10, 10, 2), Vessel("MEGI", 10, 110, 1)>>
VesselsGappy == <<Vessel("TFDE", 10, 10, 2)>>

CarbonParams ==
    [EUA_price_USD_per_t |-> R(1),
     CO2_factor_VLSFO_tCO2_per_t_fuel |-> R(3),
     CO2_factor_LNG_tCO2_per_t_fuel |-> R(2)]

Calculators ==
    {NetbackCalculatorInit(r, v, CarbonParams) :
        r \in {RoutesAll, RoutesGappy}, v \in {VesselsAll, VesselsGappy}}

\* Calculators over reference data that satisfies the input invariants
\* (distance >= 0, boil-off rate in [0,100), laden speed > 0): one vessel
\* class, and from the US Gulf a route of 0..MaxVoyageDays days to each port.
BoilOffRates == {0, 10, 60}

VoyageCalculators ==
    {NetbackCalculatorInit(<<Route("US_Gulf", "Rotterdam", 240 * a),
                             Route("US_Gulf", "Tokyo", 240 * b)>>,
                           <<Vessel("TFDE", 10, p, 2)>>, CarbonParams) :
        a \in 0..MaxVoyageDays, b \in 0..MaxVoyageDays, p \in BoilOffRates}

LoadPorts == {"US_Gulf", "Qatar"}
EuropePorts == {"Rotterdam"}
AsiaPorts == {"Tokyo"}
VesselClasses == {"TFDE", "MEGI"}
CargoCapacities == {R(100)}
TtfPrices == {R(3)}
JkmPrices == {R(3), R(4)}
FreightRates == {R(10)}
\* The MEGI_USD_day and LNG_USD_per_t columns of the market data.
MegiFreightRates == {R(20)}
FuelPrices == {R(2)}
LngFuelPrices == {R(3)}
EuaPrices == {R(1)}
FuelTypes == {"VLSFO", "LNG"}
\* Freight rates of the calls made on the calculator alone.
VoyageFreightRates == {R(10), R(20)}

\* The stress magnitudes of the config, and the engines of the stress runs:
\* all their parameters valid.
StressSpreadValues == {R(0), R(1)}
StressFreightValues == {R(0), R(10)}
StressEuaValues == {R(0), R(1)}

RiskEngines ==
    {DecisionEngineInit(R(20), R(10), ba, Rat(4, 5), R(10), R(25)) :
        ba \in {Rat(5, 100), Rat(1, 2)}}

\* The decision knobs handed to run_trade_decision, which is called with
\* what its caller read from the configuration and checks none of them.
RunBasisValues == {Rat(5, 100), R(5)}
RunCoverageValues == {Rat(4, 5), Rat(3, 2)}
RunOpsBufferValues == {R(10)}
RunDecisionBufferValues == {R(20)}
RunTtfLotValues == {R(25)}
RunJkmLotValues == {R(10), R(0)}

\* Config dicts: for each key, the values it may hold; Absent leaves the
\* key out of the dict.
Absent == [t |-> "absent", v |-> R(0)]

ConfigChoices ==
    [DECISION_BUFFER_USD : {Absent, Num(R(250)), Num(R(0)), NaN},
     OPS_BUFFER_USD : {Num(R(150)), Num(R(-150))},
     BASIS_ADJUSTMENT : {Absent, Num(R(0)), Num(Rat(5, 100)), Num(R(1)), Num(R(5)),
                         Num(Rat(-5, 100)), NaN},
     COVERAGE_PCT : {Absent, Num(Rat(4, 5)), Num(Rat(3, 2)), Text},
     TTF_LOT_MMBTU : {Num(R(10)), Num(R(0))},
     JKM_LOT_MMBTU : {Num(R(10)), Text},
     STRESS_SPREAD_USD : {Absent, Num(R(1)), Num(R(0)), Num(R(-1))},
     STRESS_FREIGHT_USD_PER_DAY : {Num(R(20)), Num(R(-20))},
     STRESS_EUA_USD : {Num(R(10)), NaN, Text}]

\* The dict holding the chosen value of every key not chosen Absent.
DictOf(choice) ==
    [k \in {x \in DOMAIN choice : choice[x] # Absent} |-> choice[k]]

Configs == {DictOf(choice) : choice \in ConfigChoices}

\* No RiskAnalyzer has been constructed.
NoAnalyzer == [constructed |-> FALSE]

NoCall == [op |-> "none"]
NoRet == [kind |-> "none"]

\* No call is being repeated.
NoPrevious == [call |-> NoCall, ret |-> NoRet]

\* Calls are synchronous and one at a time: a call starts when no result is
\* pending, and Consume is the caller taking the result.
Idle == call = NoCall

Consume ==
    /\ ~Idle
    /\ call' = NoCall
    /\ ret' = NoRet
    /\ previous' = NoPrevious
    /\ UNCHANGED <<engine, calc, config, analyzer>>

----------------------------------------------------------------------------
(* Operations.                                                             *)

\* decision_engine.evaluate(date, europe_netback, asia_netback) on netbacks
\* handed in by the caller.
Evaluate ==
    /\ Idle
    /\ \E date \in Dates, en \in EuropeNetbackValues, an \in AsiaNetbackValues,
          ae \in EnergyValues :
        LET europe_netback == NetbackOf("Europe", en, R(30))
            asia_netback == NetbackOf("Asia", an, ae)
        IN  /\ call' = [op |-> "evaluate", date |-> date,
                        europe_netback |-> europe_netback,
                        asia_netback |-> asia_netback]
            /\ ret' = DecisionEngineEvaluate(engine, date, europe_netback, asia_netback)
    /\ UNCHANGED <<engine, calc, config, analyzer, previous>>

\* calc.calculate_voyage(...)
CalculateVoyage ==
    /\ Idle
    /\ \E lp \in LoadPorts, dp \in EuropePorts \cup AsiaPorts, vc \in VesselClasses,
          cap \in CargoCapacities, fr \in VoyageFreightRates, fp \in FuelPrices,
          eua \in EuaPrices, ft \in FuelTypes :
        /\ call' = [op |-> "calculate_voyage", load_port |-> lp, discharge_port |-> dp,
                    vessel_class |-> vc, cargo_capacity_m3 |-> cap,
                    freight_rate_usd_day |-> fr, fuel_price_usd_t |-> fp,
                    eua_price_usd_t |-> eua, fuel_type |-> ft]
        /\ ret' = CalculateVoyageOf(calc, lp, dp, vc, cap, fr, fp, eua, ft)
    /\ UNCHANGED <<engine, calc, config, analyzer, previous>>

\* calc.compare_netbacks(...)
CompareNetbacks ==
    /\ Idle
    /\ \E lp \in LoadPorts, ep \in EuropePorts, ap \in AsiaPorts, vc \in VesselClasses,
          cap \in CargoCapacities, ttf \in TtfPrices, jkm \in JkmPrices,
          fr \in VoyageFreightRates, fp \in FuelPrices, eua \in EuaPrices :
        /\ call' = [op |-> "compare_netbacks", load_port |-> lp, europe_port |-> ep,
                    asia_port |-> ap, vessel_class |-> vc, cargo_capacity_m3 |-> cap,
                    ttf_price |-> ttf, jkm_price |-> jkm, freight_rate_usd_day |-> fr,
                    fuel_price_usd_t |-> fp, eua_price_usd_t |-> eua]
        /\ ret' = CompareNetbacksOf(calc, lp, ep, ap, vc, cap, ttf, jkm, fr, fp, eua)
    /\ UNCHANGED <<engine, calc, config, analyzer, previous>>

\* evaluate on the two netbacks compare_netbacks returned and the floats
\* they hold; an exception of compare_netbacks propagates.
EvaluateIfReturned(decision_engine, eval_date, netbacks, floats) ==
    IF Raised(netbacks) THEN netbacks
    ELSE EvaluateFloats(decision_engine, eval_date,
                        netbacks.value[1], netbacks.value[2], floats)

\* app.py run_single_evaluation, lines 172-190: compare_netbacks, then
\* evaluate.
EvaluateNetbacksOf(netback_calc, decision_engine, eval_date, load_port, europe_port, asia_port, vessel_class, cargo_capacity_m3, ttf_price, jkm_price, freight_rate, vlsfo_price, eua_price) ==
    EvaluateIfReturned(decision_engine, eval_date,
                       CompareNetbacksOf(netback_calc, load_port, europe_port, asia_port,
                                         vessel_class, cargo_capacity_m3, ttf_price,
                                         jkm_price, freight_rate, vlsfo_price, eua_price),
                       FloatCompareNetbacksOf(netback_calc, load_port, europe_port,
                                              asia_port, vessel_class, cargo_capacity_m3,
                                              ttf_price, jkm_price, freight_rate,
                                              vlsfo_price, eua_price))

\* The market data tables: one row for each date of its list in each table.
PriceRow(date, ttf, jkm) == [date |-> date, TTF |-> ttf, JKM |-> jkm]

FreightRow(date, tfde, megi) == [date |-> date, TFDE_USD_day |-> tfde, MEGI_USD_day |-> megi]

FuelRow(date, vlsfo, lng) == [date |-> date, VLSFO_USD_per_t |-> vlsfo, LNG_USD_per_t |-> lng]

MarketData(price_dates, freight_dates, fuel_dates, ttf, jkm, tfde, megi, vlsfo, lng) ==
    [benchmark_prices |->
         Rows([i \in DOMAIN price_dates |-> PriceRow(price_dates[i], ttf, jkm)]),
     freight_rates |->
         Rows([i \in DOMAIN freight_dates |-> FreightRow(freight_dates[i], tfde, megi)]),
     fuel_prices |->
         Rows([i \in DOMAIN fuel_dates |-> FuelRow(fuel_dates[i], vlsfo, lng)])]

\* table[table["date"] == date_pd]
DateRows(table, eval_date) ==
    LET OfDate(row) == row.date = eval_date
    IN  SelectSeq(table, OfDate)

\* The dictionary get_market_data_for_date returns: the first row of the
\* date in each table.
MarketDataOfRows(prices, freight, fuel) ==
    [ttf_price |-> prices[1].TTF,
     jkm_price |-> prices[1].JKM,
     tfde_freight |-> freight[1].TFDE_USD_day,
     megi_freight |-> freight[1].MEGI_USD_day,
     vlsfo_price |-> fuel[1].VLSFO_USD_per_t,
     lng_fuel_price |-> fuel[1].LNG_USD_per_t]

\* app.py get_market_data_for_date: ValueError when a table has no row for
\* the date, the benchmark prices looked at first, then the freight rates,
\* then the fuel prices.
GetMarketDataForDate(market_data, eval_date) ==
    IF DateRows(market_data.benchmark_prices, eval_date) = <<>>
    THEN Raise("ValueError", <<"No benchmark prices for date", eval_date>>)
    ELSE IF DateRows(market_data.freight_rates, eval_date) = <<>>
    THEN Raise("ValueError", <<"No freight rates for date", eval_date>>)
    ELSE IF DateRows(market_data.fuel_prices, eval_date) = <<>>
    THEN Raise("ValueError", <<"No fuel prices for date", eval_date>>)
    ELSE Return(MarketDataOfRows(DateRows(market_data.benchmark_prices, eval_date),
                                 DateRows(market_data.freight_rates, eval_date),
                                 DateRows(market_data.fuel_prices, eval_date)))

\* md["tfde_freight"] if args.vessel_class == "TFDE" else md["megi_freight"]
FreightRateOf(args, md) ==
    IF args.vessel_class = "TFDE" THEN md.tfde_freight ELSE md.megi_freight

\* Lines 193-219 once the stress test has run or raised: an exception of it
\* propagates; the reports are written and printed from the result and the
\* risk pack; the result is returned.
RiskReported(result, risk_pack) ==
    IF Raised(risk_pack) THEN risk_pack ELSE Return(result)

\* Lines 193-219: unless --no-risk the stress test of the analyzer runs on
\* the result (None has no run_stress_test).
RiskAnalysed(args, result, risk_analyzer, cargo_capacity_m3, md, freight_rate, eua_price) ==
    IF args.no_risk THEN Return(result)
    ELSE IF risk_analyzer = NoAnalyzer THEN Raise("AttributeError", "run_stress_test")
    ELSE RiskReported(result,
                      RunStressTestOf(risk_analyzer, result, args.load_port,
                                      args.europe_port, args.asia_port, args.vessel_class,
                                      cargo_capacity_m3, md.ttf_price, md.jkm_price,
                                      freight_rate, md.vlsfo_price, eua_price))

\* Lines 193-219 on what compare_netbacks and evaluate gave: an exception of
\* theirs propagates, a result goes to the risk analysis.
RiskAnalysedIfReturned(args, result, risk_analyzer, cargo_capacity_m3, md, freight_rate, eua_price) ==
    IF Raised(result) THEN result
    ELSE RiskAnalysed(args, result.value, risk_analyzer, cargo_capacity_m3, md,
                      freight_rate, eua_price)

\* Lines 163-219, with the market data of the date and the row of the vessel
\* in hand: the cargo capacity of the row, the freight rate of the vessel
\* class, the EUA price of the carbon parameters, compare_netbacks and
\* evaluate, then the risk analysis.
RunSingleEvaluationWith(args, eval_date, md, vessel, static_data, netback_calc, decision_engine, risk_analyzer) ==
    RiskAnalysedIfReturned(
        args,
        EvaluateNetbacksOf(netback_calc, decision_engine, eval_date,
                           args.load_port, args.europe_port, args.asia_port,
                           args.vessel_class, vessel.cargo_capacity_m3,
                           md.ttf_price, md.jkm_price, FreightRateOf(args, md),
                           md.vlsfo_price,
                           static_data.carbon_params.EUA_price_USD_per_t),
        risk_analyzer, vessel.cargo_capacity_m3, md, FreightRateOf(args, md),
        static_data.carbon_params.EUA_price_USD_per_t)

\* The None run_single_evaluation returns in place of a DecisionResult.
NoResult == [result |-> None]

\* app.py run_single_evaluation: None when the date has no market data;
\* IndexError when the vessels table has no row of the vessel class, raised
\* by .iloc[0] before the calculator is called.
RunSingleEvaluationOf(args, eval_date, market_data, static_data, netback_calc, decision_engine, risk_analyzer) ==
    IF Raised(GetMarketDataForDate(market_data, eval_date)) THEN Return(NoResult)
    ELSE IF VesselRows(static_data, args.vessel_class) = <<>>
    THEN Raise("IndexError", "single positional indexer is out-of-bounds")
    ELSE RunSingleEvaluationWith(args, eval_date,
                                 GetMarketDataForDate(market_data, eval_date).value,
                                 VesselRows(static_data, args.vessel_class)[1],
                                 static_data, netback_calc, decision_engine,
                                 risk_analyzer)

\* The static data app.py main loads: the calculator is built over its
\* tables.
StaticDataOf(netback_calc) ==
    [routes |-> netback_calc.routes, vessels |-> netback_calc.vessels,
     carbon_params |-> netback_calc.carbon_params]

\* The dates of the evaluations, and the dates each table of the market
\* data has a row for: the first date is in all three, and each other date
\* is missing from one of them.
EvalDates == {1, 2, 3, 4}
PriceDates == <<1, 3, 4>>
FreightDates == <<1, 2, 4>>
FuelDates == <<1, 2, 3>>

\* run_single_evaluation(args, eval_date, market_data, static_data, ...) with
\* the calculator and the engine of the program and the analyzer it holds,
\* if any.
RunSingleEvaluation ==
    /\ Idle
    /\ \E date \in EvalDates, lp \in LoadPorts, ep \in EuropePorts, ap \in AsiaPorts,
          vc \in VesselClasses, no_risk \in BOOLEAN, ttf \in TtfPrices,
          jkm \in JkmPrices, fr \in FreightRates, megi \in MegiFreightRates,
          fp \in FuelPrices, lng \in LngFuelPrices :
        \E market_data \in {MarketData(PriceDates, FreightDates, FuelDates,
                                       ttf, jkm, fr, megi, fp, lng)} :
            /\ call' = [op |-> "run_single_evaluation", date |-> date, load_port |-> lp,
                        europe_port |-> ep, asia_port |-> ap, vessel_class |-> vc,
                        no_risk |-> no_risk, market_data |-> market_data]
            /\ ret' = RunSingleEvaluationOf([load_port |-> lp, europe_port |-> ep,
                                             asia_port |-> ap, vessel_class |-> vc,
                                             no_risk |-> no_risk],
                                            date, market_data, StaticDataOf(calc),
                                            calc, engine, analyzer)
    /\ UNCHANGED <<engine, calc, config, analyzer, previous>>

\* validate_config(config)
ValidateConfig ==
    /\ Idle
    /\ call' = [op |-> "validate_config"]
    /\ ret' = ValidateConfigOf(config)
    /\ UNCHANGED <<engine, calc, config, analyzer, previous>>

\* run_trade_decision(...) over the tables the calculator was loaded with.
RunTradeDecision ==
    /\ Idle
    /\ \E lp \in LoadPorts, ep \in EuropePorts, ap \in AsiaPorts, vc \in VesselClasses,
          cap \in CargoCapacities, ttf \in TtfPrices, jkm \in JkmPrices,
          fr \in FreightRates, fp \in FuelPrices, eua \in EuaPrices,
          ba \in RunBasisValues, ob \in RunOpsBufferValues,
          db \in RunDecisionBufferValues, cv \in RunCoverageValues,
          tl \in RunTtfLotValues, jl \in RunJkmLotValues :
        /\ call' = [op |-> "run_trade_decision", load_port |-> lp, europe_port |-> ep,
                    asia_port |-> ap, vessel_class |-> vc, cargo_capacity_m3 |-> cap,
                    ttf_price |-> ttf, jkm_price |-> jkm, freight_rate_usd_day |-> fr,
                    fuel_price_usd_t |-> fp, eua_price_usd_t |-> eua,
                    basis_haircut_pct |-> ba, ops_buffer_usd |-> ob,
                    decision_buffer_usd |-> db, coverage_pct |-> cv,
                    ttf_lot_mmbtu |-> tl, jkm_lot_mmbtu |-> jl]
        /\ ret' = RunTradeDecisionOf(calc.routes, calc.vessels, calc.carbon_params,
                                     lp, ep, ap, vc, cap, ttf, jkm, fr, fp, eua,
                                     ba, ob, db, cv, tl, jl)
    /\ UNCHANGED <<engine, calc, config, analyzer, previous>>

\* The outcome of constructing a RiskAnalyzer: the instance is kept when
\* the constructor returns, and none is when it raises.
Constructed(kind, kwargs) ==
    /\ call' = [op |-> "RiskAnalyzer", site |-> kind, kwargs |-> kwargs]
    /\ ret' = RiskAnalyzerInit(kwargs)
    /\ analyzer' = IF Returned(RiskAnalyzerInit(kwargs))
                   THEN RiskAnalyzerInit(kwargs).value ELSE analyzer
    /\ UNCHANGED <<engine, calc, config, previous>>

\* app.py main constructs the analyzer.
AppConstructRiskAnalyzer ==
    /\ Idle
    /\ \E ss \in StressSpreadValues, sf \in StressFreightValues, se \in StressEuaValues :
        Constructed("app", AppRiskAnalyzerKwargs(calc, engine, ss, sf, se))

\* dashboard.py load_stress_results (and tests/test_risk.py) constructs the
\* analyzer with the decision-rule parameters the base decision was taken with.
DashboardConstructRiskAnalyzer ==
    /\ Idle
    /\ \E ss \in StressSpreadValues, sf \in StressFreightValues, se \in StressEuaValues :
        Constructed("dashboard",
                    DashboardRiskAnalyzerKwargs(calc, ss, sf, se,
                                                engine.basis_adjustment_pct,
                                                engine.operational_risk_buffer_usd,
                                                engine.decision_buffer_usd))

\* The constructor called with its required parameters alone.
DefaultConstructRiskAnalyzer ==
    /\ Idle
    /\ \E ss \in StressSpreadValues, sf \in StressFreightValues, se \in StressEuaValues :
        Constructed("required", RequiredRiskAnalyzerKwargs(calc, ss, sf, se))

\* analyzer.create_scenarios()
CreateScenariosCall ==
    /\ Idle
    /\ analyzer # NoAnalyzer
    /\ call' = [op |-> "create_scenarios"]
    /\ ret' = Return(CreateScenarios(analyzer))
    /\ UNCHANGED <<engine, calc, config, analyzer, previous>>

\* run_stress_test on the result of evaluating the same inputs, as
\* run_single_evaluation of app.py calls it.
StressTested(base, lp, ep, ap, vc, cap, ttf, jkm, fr, fp, eua) ==
    /\ Returned(base)
    /\ call' = [op |-> "run_stress_test", base_result |-> base.value, load_port |-> lp,
                europe_port |-> ep, asia_port |-> ap, vessel_class |-> vc,
                cargo_capacity_m3 |-> cap, ttf_price |-> ttf, jkm_price |-> jkm,
                freight_rate_usd_day |-> fr, fuel_price_usd_t |-> fp,
                eua_price_usd_t |-> eua]
    /\ ret' = RunStressTestOf(analyzer, base.value, lp, ep, ap, vc, cap, ttf, jkm,
                              fr, fp, eua)

RunStressTest ==
    /\ Idle
    /\ analyzer # NoAnalyzer
    /\ \E date \in Dates, lp \in LoadPorts, ep \in EuropePorts, ap \in AsiaPorts,
          vc \in VesselClasses, cap \in CargoCapacities, ttf \in TtfPrices,
          jkm \in JkmPrices, fr \in FreightRates, fp \in FuelPrices, eua \in EuaPrices :
        StressTested(EvaluateNetbacksOf(calc, engine, date, lp, ep, ap, vc, cap,
                                        ttf, jkm, fr, fp, eua),
                     lp, ep, ap, vc, cap, ttf, jkm, fr, fp, eua)
    /\ UNCHANGED <<engine, calc, config, analyzer, previous>>

\* The observations of a backtest: results of one engine on Europe netback 0
\* and one of three Asia netbacks.  With ops buffer 1 and no haircut the Asia
\* netbacks 4, -1 and -4 give the adjusted deltas 3, -2 and -5: with the
\* decision buffer 3 the first is DIVERT (on the boundary) and the others
\* KEEP; with the decision buffer -3, which the constructor accepts, the first
\* two are DIVERT.  With no buffer and no haircut the Asia netbacks 4, 0.44
\* and -4 are the adjusted deltas themselves (x * 1 - 0 is exact), the first
\* two DIVERT.
MaxObservations == 5
BacktestEngine == DecisionEngineInit(R(-3), R(1), R(0), Rat(4, 5), R(10), R(25))
BacktestEngines ==
    {BacktestEngine, DecisionEngineInit(R(3), R(1), R(0), Rat(4, 5), R(10), R(25)),
     DecisionEngineInit(R(0), R(0), R(0), Rat(4, 5), R(10), R(25))}
BacktestAsiaNetbacks(decision_engine) ==
    IF RIsZero(decision_engine.operational_risk_buffer_usd)
    THEN <<R(4), Rat(11, 25), R(-4)>>
    ELSE <<R(4), R(-1), R(-4)>>

Observation(decision_engine, date, k) ==
    DecisionEngineEvaluate(decision_engine, date, NetbackOf("Europe", R(0), R(30)),
                           NetbackOf("Asia", BacktestAsiaNetbacks(decision_engine)[k],
                                     R(30))).value

\* The dates of n observations: chronological, reversed, rotated by one
\* day, the first two days swapped, or all of one day.
DateOrders(n) ==
    {[i \in 1..n |-> i], [i \in 1..n |-> n + 1 - i], [i \in 1..n |-> (i % n) + 1],
     [i \in 1..n |-> IF i = 1 /\ n > 1 THEN 2 ELSE IF i = 2 THEN 1 ELSE i],
     [i \in 1..n |-> 1]}

ObservationLists(decision_engine) ==
    UNION {{Rows([i \in 1..n |-> Observation(decision_engine, dates[i], kinds[i])]) :
               dates \in DateOrders(n), kinds \in [1..n -> 1..3]} :
           n \in 0..MaxObservations}

\* backtester.run_backtest(results)
RunBacktest ==
    /\ Idle
    /\ \E results \in ObservationLists(engine) :
        /\ call' = [op |-> "run_backtest", results |-> results]
        /\ ret' = RunBacktestOf(results)
    /\ UNCHANGED <<engine, calc, config, analyzer, previous>>

----------------------------------------------------------------------------
(* Calls on the object store.  A Python name, field or argument holds a    *)
(* reference: objects live in a heap, a function works on the heap of its  *)
(* caller, and a write through one reference is seen through every other   *)
(* reference to the object.  The operations are run here on such a heap:   *)
(* the statements that make an object or write into one are the steps, and *)
(* what a call leaves of the caller's objects is read off the heap.        *)

\* A frame: the heap (an address is a position in it), the names of the
\* running function with the address each is bound to, and the outcome once
\* the function has returned or raised.
EmptyFrame == [heap |-> <<>>, names |-> <<>>, ret |-> NoRet]

\* name = <an expression that makes a new object>
Allocate(f, name, obj) ==
    [f EXCEPT !.heap = Append(@, obj), !.names = (name :> (Len(f.heap) + 1)) @@ @]

\* The object a name refers to.
Load(f, name) == f.heap[f.names[name]]

\* A write into the object a name refers to: list.append(...),
\* frame[column] = ...
Mutate(f, name, obj) == [f EXCEPT !.heap[f.names[name]] = obj]

\* return or raise: the outcome, on the heap as the function leaves it.
Outcome(f, outcome) == [f EXCEPT !.ret = outcome]

\* The call of a function: its parameters are bound to the objects the
\* caller's names refer to (params gives the caller's name of each), on the
\* caller's heap.
Enter(f, params) ==
    [heap |-> f.heap, names |-> [p \in DOMAIN params |-> f.names[params[p]]],
     ret |-> NoRet]

\* Back in the caller: its own names, the heap and the outcome of the callee.
Leave(f, callee) == [f EXCEPT !.heap = callee.heap, !.ret = callee.ret]

\* NetbackCalculator.__init__ stores the references to the two tables and
\* to the dict it is given.
CalculatorObject(f) ==
    [routes |-> f.names["routes"], vessels |-> f.names["vessels"],
     carbon_params |-> f.names["carbon_params"]]

\* The calculator at an address, with the tables its fields refer to.
CalculatorAt(f, address) ==
    [routes |-> f.heap[f.heap[address].routes],
     vessels |-> f.heap[f.heap[address].vessels],
     carbon_params |-> f.heap[f.heap[address].carbon_params]]

\* The analyzer at an address, with the calculator its field refers to.
AnalyzerAt(f, address) ==
    [f.heap[address] EXCEPT !.netback_calculator = CalculatorAt(f, @)]

\* calculator = NetbackCalculator(routes, vessels, carbon_params)
AllocateCalculator(f) == Allocate(f, "calculator", CalculatorObject(f))

\* analyzer = RiskAnalyzer(netback_calculator=calculator, ...): the field
\* refers to the calculator of the caller.
AllocateAnalyzer(f, risk_analyzer) ==
    Allocate(f, "analyzer",
             [risk_analyzer EXCEPT !.netback_calculator = f.names["calculator"]])

\* The objects a caller holds before it makes a call: the engine, the two
\* tables and the carbon parameters, the calculator over them and the
\* analyzer over the calculator.
InstancesFrame(decision_engine, netback_calc, risk_analyzer) ==
    AllocateAnalyzer(
        AllocateCalculator(
            Allocate(Allocate(Allocate(Allocate(EmptyFrame,
                                                "decision_engine", decision_engine),
                                       "routes", netback_calc.routes),
                              "vessels", netback_calc.vessels),
                     "carbon_params", netback_calc.carbon_params)),
        risk_analyzer)

\* Backtester.__init__ is pass: an instance without fields.
BacktesterInit == <<>>

\* The arguments of a call that are objects a function could write into;
\* the others are strings and numbers.  For run_backtest the instance the
\* method is called on is listed with them.
ArgumentNames(c) ==
    CASE c.op = "evaluate" -> <<"europe_netback", "asia_netback">>
      [] c.op = "run_stress_test" -> <<"base_result">>
      [] c.op = "run_backtest" -> <<"backtester", "results">>
      [] OTHER -> <<>>

\* Those arguments as the caller passes them.
Passed(c) ==
    [k \in {ArgumentNames(c)[i] : i \in DOMAIN ArgumentNames(c)} |-> c[k]]

\* The caller binds each of them to a name of its own.
RECURSIVE AllocateArguments(_, _, _)
AllocateArguments(f, c, n) ==
    IF n = 0 THEN f
    ELSE Allocate(AllocateArguments(f, c, n - 1), ArgumentNames(c)[n],
                  c[ArgumentNames(c)[n]])

\* DecisionEngine.evaluate: it writes into no object; the ticket and the
\* result are new objects, and the result refers to the two netbacks.
EvaluateOnStore(f, date) ==
    Outcome(f, DecisionEngineEvaluate(Load(f, "self"), date,
                                      Load(f, "europe_netback"),
                                      Load(f, "asia_netback")))

\* NetbackCalculator.calculate_voyage: the selections route and vessel are
\* new frames, the rest are numbers; no statement writes into self.routes,
\* self.vessels or self.carbon_params.
CalculateVoyageOnStore(f, c) ==
    Outcome(f, CalculateVoyageOf(CalculatorAt(f, f.names["self"]), c.load_port,
                                 c.discharge_port, c.vessel_class,
                                 c.cargo_capacity_m3, c.freight_rate_usd_day,
                                 c.fuel_price_usd_t, c.eua_price_usd_t, c.fuel_type))

\* NetbackCalculator.compare_netbacks: two calls of calculate_voyage and two
\* of calculate_netback, which makes a new NetbackResult from numbers.
CompareNetbacksOnStore(f, c) ==
    Outcome(f, CompareNetbacksOf(CalculatorAt(f, f.names["self"]), c.load_port,
                                 c.europe_port, c.asia_port, c.vessel_class,
                                 c.cargo_capacity_m3, c.ttf_price, c.jkm_price,
                                 c.freight_rate_usd_day, c.fuel_price_usd_t,
                                 c.eua_price_usd_t))

\* scenarios = self.create_scenarios()
NewScenarios(f) ==
    Allocate(f, "scenarios", CreateScenarios(AnalyzerAt(f, f.names["self"])))

\* stress_results = []
NewStressResults(f) == Allocate(f, "stress_results", <<>>)

\* The loop of run_stress_test from scenario i on: the stressed decision of
\* the scenario, and stress_results.append(StressResult(...)); an exception
\* ends the call.
RECURSIVE StressLoop(_, _, _)
RECURSIVE StressAppended(_, _, _, _)
StressAppended(f, c, i, outcome) ==
    IF Raised(outcome) THEN Outcome(f, outcome)
    ELSE StressLoop(Mutate(f, "stress_results",
                           Append(Load(f, "stress_results"), outcome.value)),
                    c, i + 1)

StressLoop(f, c, i) ==
    IF i > Len(Load(f, "scenarios")) THEN f
    ELSE StressAppended(f, c, i,
                        StressOne(AnalyzerAt(f, f.names["self"]),
                                  Load(f, "scenarios")[i], Load(f, "base_result"),
                                  c.load_port, c.europe_port, c.asia_port,
                                  c.vessel_class, c.cargo_capacity_m3, c.ttf_price,
                                  c.jkm_price, c.freight_rate_usd_day,
                                  c.fuel_price_usd_t, c.eua_price_usd_t))

\* return RiskPack(...): the pack refers to base_result and to the list
\* stress_results.
ReturnRiskPack(f) ==
    IF f.ret # NoRet THEN f
    ELSE Outcome(f, Return(
             [base_result |-> Load(f, "base_result"),
              stress_results |-> Load(f, "stress_results"),
              worst_case_pnl_impact |-> WorstCasePnl(Load(f, "stress_results")),
              scenarios_causing_flip |->
                  ScenariosCausingFlip(Load(f, "stress_results"),
                                       Len(Load(f, "stress_results")))]))

\* RiskAnalyzer.run_stress_test
RunStressTestOnStore(f, c) ==
    ReturnRiskPack(StressLoop(NewStressResults(NewScenarios(f)), c, 1))

\* history_data = []
NewHistoryData(f) == Allocate(f, "history_data", <<>>)

\* for r in results: history_data.append({...})
AppendHistoryRows(f) ==
    Mutate(f, "history_data",
           Load(f, "history_data") \o HistoryData(Load(f, "results")))

\* decision_history = pd.DataFrame(history_data): a frame with the rows of
\* the list.
NewDecisionHistory(f) == Allocate(f, "decision_history", Load(f, "history_data"))

\* Mutant: the caller's list put in date order in place, results.sort(...),
\* next to the sorting of the frame.
SortDecisionHistoryAndResults(f) ==
    Allocate(Mutate(f, "results",
                    SortValuesDate(Load(f, "results"), Len(Load(f, "results")))),
             "decision_history",
             SortValuesDate(Load(f, "decision_history"),
                            Len(Load(f, "decision_history"))))

\* decision_history = decision_history.sort_values("date").reset_index(drop=True):
\* sort_values returns a new frame, to which the name is bound.
SortDecisionHistory(f) ==
    Allocate(f, "decision_history",
             SortValuesDate(Load(f, "decision_history"),
                            Len(Load(f, "decision_history"))))

\* triggered = decision_history["triggered"].sum(), and triggered_rows, the
\* selection of the triggered rows: a new frame.
NewTriggeredRows(f) ==
    Allocate(Allocate(f, "triggered",
                      SumTriggered(Load(f, "decision_history"),
                                   Len(Load(f, "decision_history")))),
             "triggered_rows", TriggeredRows(Load(f, "decision_history")))

\* decision_history["pnl"] = ... and decision_history["cumulative_pnl"] = ...:
\* two columns written into the frame decision_history refers to.
SetPnlColumns(f) ==
    Mutate(f, "decision_history", DecisionHistory(Load(f, "decision_history")))

\* equity_curve = decision_history[["date", "cumulative_pnl"]].copy()
NewEquityCurve(f) ==
    Allocate(f, "equity_curve", EquityCurve(Load(f, "decision_history")))

\* return BacktestResult(metrics, equity_curve, decision_history)
ReturnBacktestResult(f) ==
    Outcome(f, Return(
        [metrics |-> BacktestMetrics(Load(f, "decision_history"),
                                     Load(f, "decision_history"),
                                     Load(f, "triggered"), Load(f, "triggered_rows")),
         equity_curve |-> Load(f, "equity_curve"),
         decision_history |-> Load(f, "decision_history")]))

\* Backtester.run_backtest
RunBacktestOnStore(f) ==
    IF Len(Load(f, "results")) = 0
    THEN Outcome(f, Raise("ValueError", "No results to backtest"))
    ELSE ReturnBacktestResult(
             NewEquityCurve(
                 SetPnlColumns(
                     NewTriggeredRows(
                         SortDecisionHistory(
                             NewDecisionHistory(
                                 AppendHistoryRows(NewHistoryData(f))))))))

\* The call c made from the frame of the caller.
Invoke(f, c) ==
    CASE c.op = "evaluate" ->
            Leave(f, EvaluateOnStore(
                         Enter(f, [self |-> "decision_engine",
                                   europe_netback |-> "europe_netback",
                                   asia_netback |-> "asia_netback"]),
                         c.date))
      [] c.op = "calculate_voyage" ->
            Leave(f, CalculateVoyageOnStore(Enter(f, [self |-> "calculator"]), c))
      [] c.op = "compare_netbacks" ->
            Leave(f, CompareNetbacksOnStore(Enter(f, [self |-> "calculator"]), c))
      [] c.op = "run_stress_test" ->
            Leave(f, RunStressTestOnStore(
                         Enter(f, [self |-> "analyzer",
                                   base_result |-> "base_result"]),
                         c))
      [] c.op = "run_backtest" ->
            Leave(f, RunBacktestOnStore(
                         Enter(f, [self |-> "backtester", results |-> "results"])))

\* The arguments of Passed as the call has left them.
Left(f, c) ==
    [k \in {ArgumentNames(c)[i] : i \in DOMAIN ArgumentNames(c)} |-> Load(f, k)]

\* The call has been made: its outcome, and the instances and the arguments
\* as they are on the heap after it.
Called(c, after) ==
    /\ call' = [c EXCEPT !.left = Left(after, c)]
    /\ ret' = after.ret
    /\ engine' = Load(after, "decision_engine")
    /\ calc' = CalculatorAt(after, after.names["calculator"])
    /\ analyzer' = AnalyzerAt(after, after.names["analyzer"])

\* The caller makes the call c on the instances it holds.
MakeCall(c) ==
    Called(c, Invoke(AllocateArguments(InstancesFrame(engine, calc, analyzer), c,
                                       Len(ArgumentNames(c))),
                     c))

\* decision_engine.evaluate(date, europe_netback, asia_netback)
EvaluateCall ==
    /\ Idle
    /\ \E date \in Dates, en \in EuropeNetbackValues, an \in AsiaNetbackValues,
          ae \in EnergyValues :
        MakeCall([op |-> "evaluate", date |-> date,
                  europe_netback |-> NetbackOf("Europe", en, R(30)),
                  asia_netback |-> NetbackOf("Asia", an, ae), left |-> <<>>])
    /\ UNCHANGED <<config, previous>>

\* calculator.calculate_voyage(...)
CalculateVoyageCall ==
    /\ Idle
    /\ \E lp \in LoadPorts, dp \in EuropePorts \cup AsiaPorts, vc \in VesselClasses,
          cap \in CargoCapacities, fr \in VoyageFreightRates, fp \in FuelPrices,
          eua \in EuaPrices, ft \in FuelTypes :
        MakeCall([op |-> "calculate_voyage", load_port |-> lp, discharge_port |-> dp,
                  vessel_class |-> vc, cargo_capacity_m3 |-> cap,
                  freight_rate_usd_day |-> fr, fuel_price_usd_t |-> fp,
                  eua_price_usd_t |-> eua, fuel_type |-> ft, left |-> <<>>])
    /\ UNCHANGED <<config, previous>>

\* calculator.compare_netbacks(...)
CompareNetbacksCall ==
    /\ Idle
    /\ \E lp \in LoadPorts, ep \in EuropePorts, ap \in AsiaPorts, vc \in VesselClasses,
          cap \in CargoCapacities, ttf \in TtfPrices, jkm \in JkmPrices,
          fr \in VoyageFreightRates, fp \in FuelPrices, eua \in EuaPrices :
        MakeCall([op |-> "compare_netbacks", load_port |-> lp, europe_port |-> ep,
                  asia_port |-> ap, vessel_class |-> vc, cargo_capacity_m3 |-> cap,
                  ttf_price |-> ttf, jkm_price |-> jkm, freight_rate_usd_day |-> fr,
                  fuel_price_usd_t |-> fp, eua_price_usd_t |-> eua, left |-> <<>>])
    /\ UNCHANGED <<config, previous>>

\* analyzer.run_stress_test(base_result, ...) on a base result the engine
\* has returned for the same inputs.
StressTestCalled(base, lp, ep, ap, vc, cap, ttf, jkm, fr, fp, eua) ==
    /\ Returned(base)
    /\ MakeCall([op |-> "run_stress_test", base_result |-> base.value,
                 load_port |-> lp, europe_port |-> ep, asia_port |-> ap,
                 vessel_class |-> vc, cargo_capacity_m3 |-> cap, ttf_price |-> ttf,
                 jkm_price |-> jkm, freight_rate_usd_day |-> fr,
                 fuel_price_usd_t |-> fp, eua_price_usd_t |-> eua, left |-> <<>>])

RunStressTestCall ==
    /\ Idle
    /\ \E date \in Dates, lp \in LoadPorts, ep \in EuropePorts, ap \in AsiaPorts,
          vc \in VesselClasses, cap \in CargoCapacities, ttf \in TtfPrices,
          jkm \in JkmPrices, fr \in FreightRates, fp \in FuelPrices, eua \in EuaPrices :
        StressTestCalled(EvaluateNetbacksOf(calc, engine, date, lp, ep, ap, vc, cap,
                                            ttf, jkm, fr, fp, eua),
                         lp, ep, ap, vc, cap, ttf, jkm, fr, fp, eua)
    /\ UNCHANGED <<config, previous>>

\* backtester = Backtester(); backtester.run_backtest(results)
RunBacktestCall ==
    /\ Idle
    /\ \E results \in ObservationLists(engine) :
        MakeCall([op |-> "run_backtest", backtester |-> BacktesterInit,
                  results |-> results, left |-> <<>>])
    /\ UNCHANGED <<config, previous>>

\* The call on record with, for arguments, the objects as the call has left
\* them.
Again(c) ==
    [k \in DOMAIN c |-> IF k \in DOMAIN c.left THEN c.left[k] ELSE c[k]]

\* The caller makes the call it has just made a second time on the same
\* objects, keeping the first result to compare.
CallAgain ==
    /\ ~Idle
    /\ previous = NoPrevious
    /\ previous' = [call |-> call, ret |-> ret]
    /\ MakeCall(Again(call))
    /\ UNCHANGED config

----------------------------------------------------------------------------
(* Specifications.                                                         *)

\* The calculator and the decision engine app.py main constructs (lines
\* 332-345) from the data DataLoader has loaded and validated.  No analyzer
\* is bound: the construction of lines 347-353 raises TypeError, and
\* run_single_evaluation is handed None in its place.
Init ==
    /\ engine \in Engines
    /\ calc \in Calculators
    /\ config = None
    /\ analyzer = NoAnalyzer
    /\ previous = NoPrevious
    /\ call = NoCall
    /\ ret = NoRet

Next ==
    \/ Evaluate
    \/ RunSingleEvaluation
    \/ RunTradeDecision
    \/ Consume

Spec == Init /\ [][Next]_vars

\* The netback calculator alone.
InitNetback ==
    /\ engine = None
    /\ calc \in Calculators
    /\ config = None
    /\ analyzer = NoAnalyzer
    /\ previous = NoPrevious
    /\ call = NoCall
    /\ ret = NoRet

NextNetback ==
    \/ CalculateVoyage
    \/ CompareNetbacks
    \/ Consume

SpecNetback == InitNetback /\ [][NextNetback]_vars

\* The netback calculator over reference data within the input invariants.
InitVoyage ==
    /\ engine = None
    /\ calc \in VoyageCalculators
    /\ config = None
    /\ analyzer = NoAnalyzer
    /\ previous = NoPrevious
    /\ call = NoCall
    /\ ret = NoRet

SpecVoyage == InitVoyage /\ [][NextNetback]_vars

\* The calculator and the engine whose results are stressed, before any
\* analyzer is constructed.
InitRisk ==
    /\ engine \in RiskEngines
    /\ calc \in Calculators
    /\ config = None
    /\ analyzer = NoAnalyzer
    /\ previous = NoPrevious
    /\ call = NoCall
    /\ ret = NoRet

NextRisk ==
    \/ AppConstructRiskAnalyzer
    \/ DashboardConstructRiskAnalyzer
    \/ DefaultConstructRiskAnalyzer
    \/ CreateScenariosCall
    \/ RunStressTest
    \/ Consume

SpecRisk == InitRisk /\ [][NextRisk]_vars

\* The backtester, on the lists of observations.
InitBacktest ==
    /\ engine \in BacktestEngines
    /\ calc \in Calculators
    /\ config = None
    /\ analyzer = NoAnalyzer
    /\ previous = NoPrevious
    /\ call = NoCall
    /\ ret = NoRet

NextBacktest ==
    \/ RunBacktest
    \/ Consume

SpecBacktest == InitBacktest /\ [][NextBacktest]_vars

\* Every component called once and then once more on the same objects.
\* The calculator is over the whole reference data, and the analyzer is
\* constructed over it as load_stress_results of dashboard.py constructs it,
\* with the decision-rule parameters of the engine and the stress magnitudes
\* 1, 10 and 1.
PurityCalculator == NetbackCalculatorInit(RoutesAll, VesselsAll, CarbonParams)

PurityAnalyzer(decision_engine) ==
    RiskAnalyzerInit(DashboardRiskAnalyzerKwargs(PurityCalculator, R(1), R(10), R(1),
                                                 decision_engine.basis_adjustment_pct,
                                                 decision_engine.operational_risk_buffer_usd,
                                                 decision_engine.decision_buffer_usd)).value

InitPurity ==
    /\ engine \in RiskEngines \cup BacktestEngines
    /\ calc = PurityCalculator
    /\ config = None
    /\ analyzer = PurityAnalyzer(engine)
    /\ previous = NoPrevious
    /\ call = NoCall
    /\ ret = NoRet

NextPurity ==
    \/ EvaluateCall
    \/ CalculateVoyageCall
    \/ CompareNetbacksCall
    \/ RunStressTestCall
    \/ RunBacktestCall
    \/ CallAgain
    \/ Consume

SpecPurity == InitPurity /\ [][NextPurity]_vars

\* Configuration validation alone.
InitValidation ==
    /\ engine = None
    /\ calc = None
    /\ config \in Configs
    /\ analyzer = NoAnalyzer
    /\ previous = NoPrevious
    /\ call = NoCall
    /\ ret = NoRet

NextValidation ==
    \/ ValidateConfig
    \/ Consume

SpecValidation == InitValidation /\ [][NextValidation]_vars

----------------------------------------------------------------------------
(* Properties of the decision engine and of the one-call trade decision.   *)

\* A DecisionResult has been returned by DecisionEngine.evaluate.
EvalReturned ==
    /\ call.op \in {"evaluate", "run_single_evaluation"}
    /\ Returned(ret)
    /\ "trade_ticket" \in DOMAIN ret.value

\* A trade pack has been returned by run_trade_decision.
RunReturned == call.op = "run_trade_decision" /\ Returned(ret)

\* The configuration of the two decision test cases: haircut 0.05, ops
\* buffer 10, decision buffer 20.
TestCaseEngine ==
    /\ engine.basis_adjustment_pct = Rat(5, 100)
    /\ engine.operational_risk_buffer_usd = R(10)
    /\ engine.decision_buffer_usd = R(20)

\* C1: every result of the decision engine says DIVERT exactly when its
\* delta_netback_adj_usd >= its decision_buffer_usd, and KEEP otherwise, the
\* ticket carrying the same decision; equality is DIVERT.  Netbacks 100/200
\* under the test configuration give DIVERT, netbacks 100/110 give KEEP.
C1_DivertIffAdjAtLeastBuffer ==
    /\ EvalReturned =>
        /\ ret.value.decision \in {"DIVERT", "KEEP"}
        /\ ret.value.decision = "DIVERT" <=>
               RGeq(ret.value.delta_netback_adj_usd, ret.value.decision_buffer_usd)
        /\ ret.value.trade_ticket.decision = ret.value.decision
        /\ ret.value.decision_buffer_usd = engine.decision_buffer_usd
    /\ (call.op = "evaluate" /\ TestCaseEngine /\ Returned(ret)
        /\ call.europe_netback.netback_usd = R(100)) =>
        /\ call.asia_netback.netback_usd = R(200) => ret.value.decision = "DIVERT"
        /\ call.asia_netback.netback_usd = R(110) => ret.value.decision = "KEEP"

\* The boundary: the adjusted delta equals a positive decision buffer
\* exactly, and the result is DIVERT.
C1_Witness ==
    /\ EvalReturned
    /\ ret.value.delta_netback_adj_usd = ret.value.decision_buffer_usd
    /\ ret.value.decision_buffer_usd = R(20)
    /\ ret.value.decision = "DIVERT"

\* C2: in every decision result, delta_netback_adj_usd equals
\* delta_netback_raw_usd * (1 - basis haircut) - ops buffer, with the haircut
\* and the ops buffer the result itself reports, which are the engine's.
C2_AdjustmentIdentity ==
    EvalReturned =>
        /\ RAdd(ret.value.delta_netback_adj_usd, ret.value.operational_risk_buffer_usd)
               = RMul(ret.value.delta_netback_raw_usd,
                      RSub(R(1), ret.value.basis_adjustment_pct))
        /\ ret.value.basis_adjustment_pct = engine.basis_adjustment_pct
        /\ ret.value.operational_risk_buffer_usd = engine.operational_risk_buffer_usd
        /\ ret.value.trade_ticket.delta_netback_adj_usd = ret.value.delta_netback_adj_usd

\* A result whose haircut and ops buffer both bite: raw 100, haircut 0.05,
\* ops buffer 10, adjusted 85.
C2_Witness ==
    /\ EvalReturned
    /\ ret.value.delta_netback_raw_usd = R(100)
    /\ ret.value.basis_adjustment_pct = Rat(5, 100)
    /\ ret.value.operational_risk_buffer_usd = R(10)
    /\ ret.value.delta_netback_adj_usd = R(85)

\* C3: the raw delta of a decision is the Asia netback minus the Europe
\* netback reported in the same output: in the DecisionResult and its
\* ticket, and in the decision block of the trade pack.
C3_RawDeltaIsAsiaMinusEurope ==
    /\ EvalReturned =>
        /\ RAdd(ret.value.delta_netback_raw_usd, ret.value.europe_netback.netback_usd)
               = ret.value.asia_netback.netback_usd
        /\ RAdd(ret.value.trade_ticket.delta_netback_raw_usd,
                ret.value.trade_ticket.netback_europe_usd)
               = ret.value.trade_ticket.netback_asia_usd
    /\ RunReturned =>
        RAdd(ret.value.decision.delta_raw_usd, ret.value.europe.netback_usd)
            = ret.value.asia.netback_usd

\* A result computed from the calculator's netbacks where the two netbacks
\* differ, so the difference has a direction: Asia is the lower one.
C3_Witness ==
    /\ call.op = "run_single_evaluation"
    /\ EvalReturned
    /\ RLt(ret.value.asia_netback.netback_usd, ret.value.europe_netback.netback_usd)
    /\ RLt(ret.value.delta_netback_raw_usd, R(0))

\* C4: whenever lots are issued, each instrument's lot count brackets the
\* hedge energy from below with that instrument's lot size:
\* lots * lot_size <= hedge_energy_mmbtu < (lots + 1) * lot_size.
LotsBracket(lots, lot_mmbtu, hedge_energy) ==
    /\ RLeq(RMul(R(lots), lot_mmbtu), hedge_energy)
    /\ RLt(hedge_energy, RMul(R(lots + 1), lot_mmbtu))

C4_LotsAreFloorOfHedgeEnergy ==
    (EvalReturned /\ ret.value.decision = "DIVERT") =>
        /\ LotsBracket(ret.value.trade_ticket.jkm_lots, engine.jkm_lot_mmbtu,
                       ret.value.trade_ticket.hedge_energy_mmbtu)
        /\ LotsBracket(ret.value.trade_ticket.ttf_lots, engine.ttf_lot_mmbtu,
                       ret.value.trade_ticket.hedge_energy_mmbtu)

\* The same restricted to lot sizes > 0: the part of C4 the code keeps.
C4_HoldsForPositiveLotSizes ==
    (/\ EvalReturned /\ ret.value.decision = "DIVERT"
     /\ RGt(engine.jkm_lot_mmbtu, R(0)) /\ RGt(engine.ttf_lot_mmbtu, R(0))) =>
        /\ LotsBracket(ret.value.trade_ticket.jkm_lots, engine.jkm_lot_mmbtu,
                       ret.value.trade_ticket.hedge_energy_mmbtu)
        /\ LotsBracket(ret.value.trade_ticket.ttf_lots, engine.ttf_lot_mmbtu,
                       ret.value.trade_ticket.hedge_energy_mmbtu)

\* The parameters the data model allows: ratios in [0,1], buffers and lot
\* sizes > 0.
EngineParamsValid(self) ==
    /\ RLeq(R(0), self.basis_adjustment_pct) /\ RLeq(self.basis_adjustment_pct, R(1))
    /\ RLeq(R(0), self.coverage_pct) /\ RLeq(self.coverage_pct, R(1))
    /\ RGt(self.decision_buffer_usd, R(0))
    /\ RGt(self.operational_risk_buffer_usd, R(0))
    /\ RGt(self.jkm_lot_mmbtu, R(0))
    /\ RGt(self.ttf_lot_mmbtu, R(0))

\* C5: lot counts are never negative, whatever the delivered energy of the
\* voyage the calculator produced.  Stated for engines whose parameters are
\* all valid and for netbacks computed by the calculator, so that a
\* violation is owed to the voyage's delivered energy alone.
C5_LotsNeverNegative ==
    (/\ call.op = "run_single_evaluation"
     /\ EvalReturned
     /\ EngineParamsValid(engine)
     /\ ret.value.decision = "DIVERT") =>
        /\ ret.value.trade_ticket.jkm_lots >= 0
        /\ ret.value.trade_ticket.ttf_lots >= 0
        /\ \A i \in DOMAIN ret.value.trade_ticket.hedge_legs :
               ret.value.trade_ticket.hedge_legs[i].lots >= 0

\* C6: hedge legs are present exactly when the decision is DIVERT, in the
\* trade ticket of evaluate and in the trade pack of run_trade_decision.
C6_HedgeLegsOnlyOnDivert ==
    /\ EvalReturned =>
        (ret.value.trade_ticket.hedge_legs # None <=> ret.value.decision = "DIVERT")
    /\ RunReturned =>
        (ret.value.hedge_legs # None /\ ret.value.hedge_legs # <<>>
            <=> ret.value.decision.decision = "DIVERT")

\* C7: on DIVERT the hedge is exactly two legs, long JKM with the JKM lot
\* count and short TTF with the TTF lot count, in both entry points.
C7_DivertLegsLongJkmShortTtf ==
    /\ (EvalReturned /\ ret.value.decision = "DIVERT") =>
        ret.value.trade_ticket.hedge_legs =
            <<[leg |-> "LONG", instrument |-> "JKM",
               lots |-> Floor(RDiv(ret.value.trade_ticket.hedge_energy_mmbtu,
                                   engine.jkm_lot_mmbtu))],
              [leg |-> "SHORT", instrument |-> "TTF",
               lots |-> Floor(RDiv(ret.value.trade_ticket.hedge_energy_mmbtu,
                                   engine.ttf_lot_mmbtu))]>>
    /\ (RunReturned /\ ret.value.decision.decision = "DIVERT") =>
        ret.value.hedge_legs =
            <<[leg |-> "BUY JKM", lots |-> ret.value.decision.lots_jkm],
              [leg |-> "SELL TTF", lots |-> ret.value.decision.lots_ttf]>>

\* A DIVERT ticket whose two lot counts differ, so a swap would show.
C7_Witness ==
    /\ EvalReturned
    /\ ret.value.decision = "DIVERT"
    /\ ret.value.trade_ticket.jkm_lots # ret.value.trade_ticket.ttf_lots
    /\ ret.value.trade_ticket.jkm_lots > 0

\* C8: asked to operate with a ratio outside [0,1] or a non-positive buffer
\* or lot size, the decision engine fails (with InvalidConfigError) and
\* never returns a result computed from such parameters.
C8_EngineRejectsInvalidParameters ==
    (call.op = "evaluate" /\ ~EngineParamsValid(engine)) => ~Returned(ret)

\* The same for run_trade_decision, whose coverage ratio reaches no check.
RunParamsValid ==
    /\ DecideParamsValid(call.basis_haircut_pct, call.ops_buffer_usd,
                         call.decision_buffer_usd, call.ttf_lot_mmbtu,
                         call.jkm_lot_mmbtu)
    /\ RLeq(R(0), call.coverage_pct) /\ RLeq(call.coverage_pct, R(1))

RunRejectsInvalidParameters ==
    (call.op = "run_trade_decision" /\ ~RunParamsValid) => ~Returned(ret)

----------------------------------------------------------------------------
(* Properties of validate_config.                                          *)

\* The condition under which the configuration is valid: all nine keys
\* present, the two ratios in [0,1], the four buffers and lot sizes > 0,
\* the three stress magnitudes >= 0.  A NaN or an unparsable string is
\* neither in [0,1], nor > 0, nor >= 0.
IsNumber(x) == x.t = "num"

ConfigValid(cfg) ==
    /\ \A i \in DOMAIN RequiredKeys : RequiredKeys[i] \in DOMAIN cfg
    /\ \A k \in {"BASIS_ADJUSTMENT", "COVERAGE_PCT"} :
           IsNumber(cfg[k]) /\ RLeq(R(0), cfg[k].v) /\ RLeq(cfg[k].v, R(1))
    /\ \A i \in DOMAIN PositiveKeys :
           IsNumber(cfg[PositiveKeys[i]]) /\ RGt(cfg[PositiveKeys[i]].v, R(0))
    /\ \A i \in DOMAIN NonNegativeKeys :
           IsNumber(cfg[NonNegativeKeys[i]]) /\ RGeq(cfg[NonNegativeKeys[i]].v, R(0))

\* C9: validate_config returns normally exactly when the configuration is
\* valid, and raises otherwise; missing keys are reported (KeyError) before
\* any range check.
C9_ValidateConfigAcceptsExactlyValid ==
    call.op = "validate_config" =>
        /\ Returned(ret) <=> ConfigValid(config)
        /\ Raised(ret) <=> ~ConfigValid(config)
        /\ (\E i \in DOMAIN RequiredKeys : RequiredKeys[i] \notin DOMAIN config)
               => (Raised(ret) /\ ret.exc = "KeyError")

\* The same with no NaN among the values: the part of C9 the code keeps.
C9_HoldsWithoutNaN ==
    (call.op = "validate_config" /\ \A k \in DOMAIN config : config[k].t # "nan") =>
        /\ Returned(ret) <=> ConfigValid(config)
        /\ (\E i \in DOMAIN RequiredKeys : RequiredKeys[i] \notin DOMAIN config)
               => (Raised(ret) /\ ret.exc = "KeyError")

----------------------------------------------------------------------------
(* Properties of the netback calculator.                                   *)

HasRoute(load_port, discharge_port) ==
    \E i \in DOMAIN calc.routes :
        /\ calc.routes[i].load_port = load_port
        /\ calc.routes[i].discharge_port = discharge_port

HasVessel(vessel_class) ==
    \E i \in DOMAIN calc.vessels : calc.vessels[i].vessel_class = vessel_class

\* C10: calculate_voyage raises a not-found error naming the missing key,
\* and returns nothing, exactly when the route pair or the vessel class has
\* no row; with both present it returns a VoyageDetails.  compare_netbacks
\* returns both netbacks or raises, never one.
C10_NotFoundExactlyWhenRowMissing ==
    /\ call.op = "calculate_voyage" =>
        /\ Raised(ret) <=> (~HasRoute(call.load_port, call.discharge_port)
                            \/ ~HasVessel(call.vessel_class))
        /\ Returned(ret) <=> (HasRoute(call.load_port, call.discharge_port)
                              /\ HasVessel(call.vessel_class))
        /\ ~HasRoute(call.load_port, call.discharge_port) =>
               ret = Raise("ValueError",
                           <<"Route not found", call.load_port, call.discharge_port>>)
        /\ (HasRoute(call.load_port, call.discharge_port)
            /\ ~HasVessel(call.vessel_class)) =>
               ret = Raise("ValueError", <<"Vessel class not found", call.vessel_class>>)
        /\ Returned(ret) => "delivered_energy_mmbtu" \in DOMAIN ret.value
    /\ call.op = "compare_netbacks" =>
        /\ Returned(ret) <=> (/\ HasRoute(call.load_port, call.europe_port)
                              /\ HasRoute(call.load_port, call.asia_port)
                              /\ HasVessel(call.vessel_class))
        /\ Returned(ret) => (/\ Len(ret.value) = 2
                             /\ ret.value[1].destination = "Europe"
                             /\ ret.value[2].destination = "Asia")
        /\ ~Returned(ret) => (Raised(ret) /\ ret.exc = "ValueError")

\* The route to Europe exists and the one to Asia does not: compare_netbacks
\* raises although the first voyage succeeded.
C10_Witness ==
    /\ call.op = "compare_netbacks"
    /\ HasRoute(call.load_port, call.europe_port)
    /\ ~HasRoute(call.load_port, call.asia_port)
    /\ HasVessel(call.vessel_class)
    /\ Raised(ret)

----------------------------------------------------------------------------
(* Properties of the voyage and netback arithmetic.                        *)

VoyageReturned == call.op = "calculate_voyage" /\ Returned(ret)
NetbacksReturned == call.op = "compare_netbacks" /\ Returned(ret)

\* The route row and the vessel row a call of calculate_voyage used.
RouteUsed == RouteRows(calc, call.load_port, call.discharge_port)[1]
VesselUsed == VesselRows(calc, call.vessel_class)[1]

\* C11: degenerate voyages are returned as computed, not clamped and not an
\* error: delivered_cargo_m3 = capacity - boil_off_m3 whatever its sign, the
\* delivered energy is that volume times density and energy content, and
\* calculate_netback carries the energy to revenue and netback unchanged.
C11_NegativeEnergyPassesThrough ==
    /\ VoyageReturned =>
        /\ ret.value.boil_off_m3 =
               RMul(RMul(call.cargo_capacity_m3,
                         RDiv(VesselUsed.boil_off_pct_per_day, R(100))),
                    ret.value.voyage_days)
        /\ ret.value.delivered_cargo_m3 =
               RSub(call.cargo_capacity_m3, ret.value.boil_off_m3)
        /\ ret.value.delivered_energy_mmbtu =
               RMul(RMul(ret.value.delivered_cargo_m3, Rat(45, 100)), R(52))
    /\ NetbacksReturned =>
        \A i \in 1..2 :
            /\ ret.value[i].delivered_energy_mmbtu =
                   ret.value[i].voyage_details.delivered_energy_mmbtu
            /\ ret.value[i].voyage_details.delivered_cargo_m3 =
                   RSub(call.cargo_capacity_m3, ret.value[i].voyage_details.boil_off_m3)
            /\ ret.value[i].revenue_usd =
                   RMul(ret.value[i].price_usd_mmbtu,
                        ret.value[i].voyage_details.delivered_energy_mmbtu)
            /\ ret.value[i].netback_usd =
                   RSub(ret.value[i].revenue_usd,
                        ret.value[i].voyage_details.total_voyage_cost_usd)

\* The Asia voyage boils off more than the cargo: negative volume, negative
\* energy, negative revenue, all returned.
C11_Witness ==
    /\ NetbacksReturned
    /\ RLt(ret.value[2].voyage_details.delivered_cargo_m3, R(0))
    /\ RLt(ret.value[2].delivered_energy_mmbtu, R(0))
    /\ RLt(ret.value[2].revenue_usd, R(0))
    /\ RGt(ret.value[1].delivered_energy_mmbtu, R(0))

\* The input invariants of the data model on what a voyage is computed from.
VoyageInputInvariants ==
    /\ RGeq(RouteUsed.distance_nm, R(0))
    /\ RGeq(VesselUsed.boil_off_pct_per_day, R(0))
    /\ RLt(VesselUsed.boil_off_pct_per_day, R(100))
    /\ RGt(VesselUsed.laden_speed_kn, R(0))
    /\ RGt(call.cargo_capacity_m3, R(0))

\* C12 as stated: every voyage computed from data within the input
\* invariants has cargo_capacity_m3 > delivered_cargo_m3 >= 0.
C12_DeliveredWithinCapacity ==
    (VoyageReturned /\ VoyageInputInvariants) =>
        /\ RGt(call.cargo_capacity_m3, ret.value.delivered_cargo_m3)
        /\ RGeq(ret.value.delivered_cargo_m3, R(0))

\* C12 amended: for data within the input invariants the delivered cargo
\* never exceeds the capacity, is below it exactly when the voyage takes
\* time and the vessel boils off, and is >= 0 exactly when the boil-off rate
\* times the voyage days is at most 100 percent.
C12_DeliveredAtMostCapacity ==
    (VoyageReturned /\ VoyageInputInvariants) =>
        /\ RLeq(ret.value.delivered_cargo_m3, call.cargo_capacity_m3)
        /\ RLt(ret.value.delivered_cargo_m3, call.cargo_capacity_m3)
               <=> (/\ RGt(RouteUsed.distance_nm, R(0))
                    /\ RGt(VesselUsed.boil_off_pct_per_day, R(0)))
        /\ RGeq(ret.value.delivered_cargo_m3, R(0))
               <=> RLeq(RMul(VesselUsed.boil_off_pct_per_day, ret.value.voyage_days),
                        R(100))

\* A voyage within the input invariants (60 percent a day, two days) that
\* delivers a negative volume.
C12_Witness ==
    /\ VoyageReturned
    /\ VoyageInputInvariants
    /\ VesselUsed.boil_off_pct_per_day = R(60)
    /\ ret.value.voyage_days = R(2)
    /\ RLt(ret.value.delivered_cargo_m3, R(0))

\* C13: every NetbackResult satisfies the margin waterfall: revenue is
\* price times delivered energy, voyage_cost_usd plus carbon_cost_usd is the
\* total voyage cost, and netback is revenue minus voyage cost minus carbon
\* cost, the carbon cost deducted once.
C13_MarginWaterfall ==
    NetbacksReturned =>
        \A i \in 1..2 :
            /\ ret.value[i].revenue_usd =
                   RMul(ret.value[i].price_usd_mmbtu, ret.value[i].delivered_energy_mmbtu)
            /\ RAdd(ret.value[i].voyage_cost_usd, ret.value[i].carbon_cost_usd) =
                   ret.value[i].voyage_details.total_voyage_cost_usd
            /\ ret.value[i].carbon_cost_usd = ret.value[i].voyage_details.carbon_cost_usd
            /\ ret.value[i].netback_usd =
                   RSub(RSub(ret.value[i].revenue_usd, ret.value[i].voyage_cost_usd),
                        ret.value[i].carbon_cost_usd)
            /\ ret.value[i].price_usd_mmbtu =
                   (IF i = 1 THEN call.ttf_price ELSE call.jkm_price)

\* Both netbacks carry a carbon cost > 0 and a voyage cost > 0.
C13_Witness ==
    /\ NetbacksReturned
    /\ \A i \in 1..2 : /\ RGt(ret.value[i].carbon_cost_usd, R(0))
                       /\ RGt(ret.value[i].voyage_cost_usd, R(0))
                       /\ RGt(ret.value[i].revenue_usd, R(0))

----------------------------------------------------------------------------
(* Properties of the risk analyzer.                                        *)

StressReturned == call.op = "run_stress_test" /\ Returned(ret)

\* The six scenarios of the contract for the magnitudes of an analyzer.
ScenarioNames ==
    <<"Spread Collapse", "Spread Widen", "Freight Spike", "Freight Drop",
      "EUA Spike", "Combined Adverse">>

ContractScenario(self, i) ==
    [name |-> ScenarioNames[i],
     spread_shock_usd |->
         IF i \in {1, 6} THEN RNeg(self.stress_spread_usd)
         ELSE IF i = 2 THEN self.stress_spread_usd ELSE R(0),
     freight_shock_usd_day |->
         IF i \in {3, 6} THEN self.stress_freight_usd_per_day
         ELSE IF i = 4 THEN RNeg(self.stress_freight_usd_per_day) ELSE R(0),
     eua_shock_usd |-> IF i \in {5, 6} THEN self.stress_eua_usd ELSE R(0)]

\* C14: create_scenarios yields exactly the six scenarios of the contract,
\* in order, with the shocks of the analyzer's magnitudes and 0 elsewhere;
\* run_stress_test returns one StressResult per scenario in the same order.
C14_SixScenariosInOrder ==
    /\ (call.op = "create_scenarios" /\ Returned(ret)) =>
        /\ Len(ret.value) = 6
        /\ \A i \in 1..6 : ret.value[i] = ContractScenario(analyzer, i)
    /\ StressReturned =>
        /\ DOMAIN ret.value.stress_results = 1..6
        /\ \A i \in 1..6 :
               ret.value.stress_results[i].scenario = ContractScenario(analyzer, i)

\* A stress run of an analyzer whose three magnitudes are all non-zero, so
\* that the six scenarios differ from one another.
C14_Witness ==
    /\ StressReturned
    /\ analyzer.stress_spread_usd = R(1)
    /\ analyzer.stress_freight_usd_per_day = R(10)
    /\ analyzer.stress_eua_usd = R(1)
    /\ ret.value.stress_results[4].scenario.name = "Freight Drop"

\* The analyzer holds the decision-rule parameters of the engine that took
\* the base decision.
SameParameters(self, decision_engine) ==
    /\ self.basis_haircut_pct = decision_engine.basis_adjustment_pct
    /\ self.ops_buffer_usd = decision_engine.operational_risk_buffer_usd
    /\ self.decision_buffer_usd = decision_engine.decision_buffer_usd

ZeroShock(scenario) ==
    /\ RIsZero(scenario.spread_shock_usd)
    /\ RIsZero(scenario.freight_shock_usd_day)
    /\ RIsZero(scenario.eua_shock_usd)

\* C15: however the repository constructs the analyzer, it is constructed
\* with the decision-rule parameters of the base decision, so that in every
\* stress run the fresh decisions use the parameters of the base result and
\* a scenario whose shocks are all 0 has pnl_impact 0 and no decision change.
C15_SameDecisionRuleParameters ==
    /\ (call.op = "RiskAnalyzer" /\ call.site \in {"app", "dashboard"}) =>
        (Returned(ret) /\ SameParameters(ret.value, engine))
    /\ StressReturned =>
        /\ SameParameters(analyzer, engine)
        /\ \A i \in DOMAIN ret.value.stress_results :
               ZeroShock(ret.value.stress_results[i].scenario) =>
                   /\ RIsZero(ret.value.stress_results[i].pnl_impact_usd)
                   /\ ~ret.value.stress_results[i].decision_change

\* The second half of C15 alone: a scenario with no shock has no impact.
ZeroShockHasNoImpact ==
    StressReturned =>
        \A i \in DOMAIN ret.value.stress_results :
            ZeroShock(ret.value.stress_results[i].scenario) =>
                /\ RIsZero(ret.value.stress_results[i].pnl_impact_usd)
                /\ ~ret.value.stress_results[i].decision_change

\* The same for analyzers constructed with explicit parameters, as
\* dashboard.py does: the part of C15 the code keeps.
ExplicitZeroShockHasNoImpact ==
    (StressReturned /\ SameParameters(analyzer, engine)) =>
        \A i \in DOMAIN ret.value.stress_results :
            ZeroShock(ret.value.stress_results[i].scenario) =>
                /\ RIsZero(ret.value.stress_results[i].pnl_impact_usd)
                /\ ~ret.value.stress_results[i].decision_change

\* C16: every StressResult has pnl_impact_usd = stressed delta - base delta
\* and decision_change = (stressed decision # base decision), the base delta
\* and the base decision being those of the base result passed in.
C16_PnlImpactAndDecisionChange ==
    StressReturned =>
        \A i \in DOMAIN ret.value.stress_results :
            LET r == ret.value.stress_results[i]
            IN  /\ r.base_delta_netback_adj = call.base_result.delta_netback_adj_usd
                /\ r.base_decision = call.base_result.decision
                /\ RAdd(r.pnl_impact_usd, r.base_delta_netback_adj)
                       = r.stressed_delta_netback_adj
                /\ r.decision_change <=> (r.stressed_decision # r.base_decision)
                /\ r.stressed_decision \in {"DIVERT", "KEEP"}

\* A stress result that loses money against the base and flips a DIVERT
\* into a KEEP.
C16_Witness ==
    /\ StressReturned
    /\ \E i \in DOMAIN ret.value.stress_results :
        /\ ret.value.stress_results[i].decision_change
        /\ ret.value.stress_results[i].base_decision = "DIVERT"
        /\ ret.value.stress_results[i].stressed_decision = "KEEP"
        /\ RLt(ret.value.stress_results[i].pnl_impact_usd, R(0))

DecisionChanged(r) == r.decision_change

FlippedNames(stress_results) ==
    LET flipped == SelectSeq(stress_results, DecisionChanged)
    IN  [i \in 1..Len(flipped) |-> flipped[i].scenario.name]

\* C17: worst_case_pnl_impact is the minimum pnl_impact_usd of the stress
\* results (below or equal to each, equal to one), and
\* scenarios_causing_flip is the names of the results whose decision
\* changed, in scenario order, empty when none changed.
C17_RiskPackAggregates ==
    StressReturned =>
        /\ \A i \in DOMAIN ret.value.stress_results :
               RLeq(ret.value.worst_case_pnl_impact,
                    ret.value.stress_results[i].pnl_impact_usd)
        /\ \E i \in DOMAIN ret.value.stress_results :
               ret.value.worst_case_pnl_impact =
                   ret.value.stress_results[i].pnl_impact_usd
        /\ ret.value.scenarios_causing_flip = FlippedNames(ret.value.stress_results)
        /\ ret.value.base_result = call.base_result

\* Some scenarios flip the decision and some do not, and the worst impact
\* is a loss that not every scenario makes.
C17_Witness ==
    /\ StressReturned
    /\ Len(ret.value.scenarios_causing_flip) = 2
    /\ ret.value.scenarios_causing_flip = <<"Spread Collapse", "Combined Adverse">>
    /\ RLt(ret.value.worst_case_pnl_impact, R(0))
    /\ \E i \in DOMAIN ret.value.stress_results :
           RGt(ret.value.stress_results[i].pnl_impact_usd, R(0))

----------------------------------------------------------------------------
(* Properties of the backtester.                                           *)

BacktestCalled == call.op = "run_backtest"
BacktestReturned == BacktestCalled /\ Returned(ret)

\* C18: run_backtest on zero observations fails with the empty-input error
\* (ValueError "No results to backtest") and yields no history, metric or
\* equity curve; on any other input it returns a result whose
\* total_observations is the number of observations passed in.
C18_EmptyInputFails ==
    BacktestCalled =>
        /\ Len(call.results) = 0 =>
            /\ Raised(ret)
            /\ ret.exc = "ValueError" /\ ret.key = "No results to backtest"
            /\ DOMAIN ret = {"kind", "exc", "key"}
        /\ Len(call.results) > 0 =>
            /\ Returned(ret)
            /\ ret.value.metrics.total_observations = Len(call.results)
            /\ Len(ret.value.decision_history) = Len(call.results)

\* The call on the empty list has failed.
C18_Witness ==
    /\ BacktestCalled
    /\ call.results = <<>>
    /\ Raised(ret)

DivertIndices(results) == {i \in 1..Len(results) : results[i].decision = "DIVERT"}

\* C19: triggered_trades is the number of DIVERT observations, hit_rate is
\* triggered_trades / total_observations, 0 <= triggered_trades <=
\* total_observations and 0 <= hit_rate <= 1.
C19_HitRate ==
    BacktestReturned =>
        /\ ret.value.metrics.triggered_trades = Cardinality(DivertIndices(call.results))
        /\ RMul(ret.value.metrics.hit_rate, R(ret.value.metrics.total_observations))
               = R(ret.value.metrics.triggered_trades)
        /\ 0 <= ret.value.metrics.triggered_trades
        /\ ret.value.metrics.triggered_trades <= ret.value.metrics.total_observations
        /\ RLeq(R(0), ret.value.metrics.hit_rate)
        /\ RLeq(ret.value.metrics.hit_rate, R(1))

\* Two of three observations are DIVERT: the hit rate is 2/3.
C19_Witness ==
    /\ BacktestReturned
    /\ ret.value.metrics.total_observations = 3
    /\ ret.value.metrics.triggered_trades = 2
    /\ ret.value.metrics.hit_rate = Rat(2, 3)

\* The sum of delta_netback_adj_usd over the DIVERT observations among the
\* first n of the list passed in.
RECURSIVE DivertDeltaSum(_, _)
DivertDeltaSum(results, n) ==
    IF n = 0 THEN R(0)
    ELSE IF results[n].decision = "DIVERT"
         THEN RAdd(DivertDeltaSum(results, n - 1), results[n].delta_netback_adj_usd)
         ELSE DivertDeltaSum(results, n - 1)

\* C20: total_uplift_usd is the sum and average_uplift_usd the mean of
\* delta_netback_adj_usd over the DIVERT observations only, so that
\* average_uplift_usd * triggered_trades = total_uplift_usd; a KEEP
\* observation contributes nothing; with no DIVERT observation both are 0.
C20_UpliftOverTriggeredOnly ==
    BacktestReturned =>
        /\ ret.value.metrics.total_uplift_usd
               = DivertDeltaSum(call.results, Len(call.results))
        /\ RMul(ret.value.metrics.average_uplift_usd,
                R(ret.value.metrics.triggered_trades))
               = ret.value.metrics.total_uplift_usd
        /\ DivertIndices(call.results) = {} =>
            /\ RIsZero(ret.value.metrics.total_uplift_usd)
            /\ RIsZero(ret.value.metrics.average_uplift_usd)
        /\ DivertIndices(call.results) # {} =>
               RMul(ret.value.metrics.average_uplift_usd,
                    R(Cardinality(DivertIndices(call.results))))
                   = DivertDeltaSum(call.results, Len(call.results))

\* DIVERT observations of 3 and -2 with a KEEP observation of -5 between
\* them: the total is 1 and the average 1/2.
C20_Witness ==
    /\ BacktestReturned
    /\ Len(call.results) = 3
    /\ call.results[1].decision = "DIVERT"
    /\ call.results[2].decision = "KEEP"
    /\ call.results[2].delta_netback_adj_usd = R(-5)
    /\ call.results[3].decision = "DIVERT"
    /\ ret.value.metrics.total_uplift_usd = R(1)
    /\ ret.value.metrics.average_uplift_usd = Rat(1, 2)

\* The cumulative pnl before row t of a decision history: 0 before the first.
CumulativeBefore(decision_history, t) ==
    IF t = 1 THEN R(0) ELSE decision_history[t - 1].cumulative_pnl

\* C21: the equity curve has one point per observation; the pnl of a row is
\* its delta_netback_adj_usd when its decision is DIVERT and 0 otherwise; the
\* curve at step t is the curve at step t - 1 (0 before the first) plus the
\* pnl of step t; the last point is total_uplift_usd.
C21_EquityCurveIsRunningSum ==
    BacktestReturned =>
        /\ Len(ret.value.equity_curve) = Len(call.results)
        /\ \A t \in 1..Len(ret.value.decision_history) :
            LET row == ret.value.decision_history[t]
            IN  /\ row.pnl = IF row.decision = "DIVERT"
                             THEN row.delta_netback_adj_usd ELSE R(0)
                /\ row.cumulative_pnl
                       = RAdd(CumulativeBefore(ret.value.decision_history, t), row.pnl)
                /\ ret.value.equity_curve[t].cumulative_pnl = row.cumulative_pnl
                /\ ret.value.equity_curve[t].date = row.date
        /\ ret.value.equity_curve[Len(ret.value.equity_curve)].cumulative_pnl
               = ret.value.metrics.total_uplift_usd

\* DIVERT 3, KEEP -5, DIVERT -2: the curve is 3, 3, 1.
C21_Witness ==
    /\ BacktestReturned
    /\ Len(ret.value.equity_curve) = 3
    /\ ret.value.equity_curve[1].cumulative_pnl = R(3)
    /\ ret.value.equity_curve[2].cumulative_pnl = R(3)
    /\ ret.value.decision_history[2].decision = "KEEP"
    /\ ret.value.equity_curve[3].cumulative_pnl = R(1)

NonDecreasing(equity_curve) ==
    \A t \in 1..Len(equity_curve) :
        t > 1 => RLeq(equity_curve[t - 1].cumulative_pnl, equity_curve[t].cumulative_pnl)

\* C22: max_drawdown_usd is the maximum over t of the largest cumulative
\* pnl up to and including t minus the cumulative pnl at t (an upper bound
\* of every such fall, attained by one); it is never negative, and it is 0
\* when the equity curve never decreases.
C22_MaxDrawdown ==
    BacktestReturned =>
        /\ \A t \in 1..Len(ret.value.equity_curve) : \A u \in 1..t :
               RGeq(ret.value.metrics.max_drawdown_usd,
                    RSub(ret.value.equity_curve[u].cumulative_pnl,
                         ret.value.equity_curve[t].cumulative_pnl))
        /\ \E t \in 1..Len(ret.value.equity_curve) : \E u \in 1..t :
               ret.value.metrics.max_drawdown_usd
                   = RSub(ret.value.equity_curve[u].cumulative_pnl,
                          ret.value.equity_curve[t].cumulative_pnl)
        /\ RGeq(ret.value.metrics.max_drawdown_usd, R(0))
        /\ NonDecreasing(ret.value.equity_curve) =>
               RIsZero(ret.value.metrics.max_drawdown_usd)

\* DIVERT 3, DIVERT -2, DIVERT -2: the curve is 3, 1, -1 and the largest
\* fall is 4.
C22_Witness ==
    /\ BacktestReturned
    /\ Len(ret.value.equity_curve) = 3
    /\ ret.value.equity_curve[1].cumulative_pnl = R(3)
    /\ ret.value.equity_curve[3].cumulative_pnl = R(-1)
    /\ ret.value.metrics.max_drawdown_usd = R(4)

\* The daily pnl has zero variance: every row has the pnl of the first.
ZeroVariancePnl(decision_history) ==
    \A i \in 1..Len(decision_history) :
        RIsZero(RSub(decision_history[i].pnl, decision_history[1].pnl))

\* C23: sharpe_ratio is null whenever there are fewer than 5 observations or
\* the daily pnl over all rows has zero variance, and it is a number only
\* when there are at least 5 observations and the pnl standard deviation is
\* not zero; in the null cases it is None, never a number such as 0 or NaN.
C23_SharpeNullability ==
    BacktestReturned =>
        /\ (\/ Len(ret.value.decision_history) < 5
            \/ ZeroVariancePnl(ret.value.decision_history))
               => ret.value.metrics.sharpe_ratio = NoSharpe
        /\ ret.value.metrics.sharpe_ratio # NoSharpe
               => /\ ret.value.metrics.sharpe_ratio.kind = "number"
                  /\ Len(ret.value.decision_history) >= 5
                  /\ ~ZeroVariancePnl(ret.value.decision_history)

\* Five DIVERT rows of 0.44 each: the pnl has zero variance and sharpe_ratio
\* is a number.
SharpeOfFiveEqualRows ==
    /\ BacktestReturned
    /\ Len(ret.value.decision_history) = 5
    /\ \A i \in 1..5 : ret.value.decision_history[i].pnl = Rat(11, 25)
    /\ ret.value.metrics.sharpe_ratio # NoSharpe

\* What the code does keep of it: no number below 5 observations, none when
\* no row is triggered or every pnl is one integer, and a number whenever
\* the pnl values differ.
SharpeNullWithoutRounding ==
    BacktestReturned =>
        /\ Len(ret.value.decision_history) < 5
               => ret.value.metrics.sharpe_ratio = NoSharpe
        /\ (/\ ZeroVariancePnl(ret.value.decision_history)
            /\ ret.value.decision_history[1].pnl[2] = 1)
               => ret.value.metrics.sharpe_ratio = NoSharpe
        /\ (/\ Len(ret.value.decision_history) >= 5
            /\ ~ZeroVariancePnl(ret.value.decision_history))
               => ret.value.metrics.sharpe_ratio.kind = "number"

----------------------------------------------------------------------------
(* Further properties of the voyage arithmetic.                            *)

\* C25: calculate_voyage returns voyage_days = distance / (speed * 24),
\* boil_off_m3 = capacity * (rate / 100) * voyage_days, delivered cargo =
\* capacity - boil-off, delivered energy = delivered cargo * 0.45 * 52, fuel
\* and charter cost proportional to voyage_days, carbon cost = fuel consumed
\* * CO2 factor of the fuel type * EUA price, and total cost = fuel + charter
\* + carbon; so of two routes sailed by one vessel with a positive boil-off
\* rate the shorter delivers strictly more energy.
C25_VoyageArithmetic ==
    /\ VoyageReturned =>
        /\ ret.value.distance_nm = RouteUsed.distance_nm
        /\ RMul(ret.value.voyage_days, RMul(VesselUsed.laden_speed_kn, R(24)))
               = RouteUsed.distance_nm
        /\ RMul(ret.value.boil_off_m3, R(100))
               = RMul(RMul(call.cargo_capacity_m3, VesselUsed.boil_off_pct_per_day),
                      ret.value.voyage_days)
        /\ RAdd(ret.value.delivered_cargo_m3, ret.value.boil_off_m3)
               = call.cargo_capacity_m3
        /\ ret.value.delivered_energy_mmbtu
               = RMul(ret.value.delivered_cargo_m3, Rat(45 * 52, 100))
        /\ ret.value.fuel_consumed_tonnes
               = RMul(VesselUsed.fuel_consumption_tpd_laden, ret.value.voyage_days)
        /\ ret.value.fuel_cost_usd
               = RMul(ret.value.fuel_consumed_tonnes, call.fuel_price_usd_t)
        /\ ret.value.time_charter_cost_usd
               = RMul(call.freight_rate_usd_day, ret.value.voyage_days)
        /\ ret.value.carbon_cost_usd
               = RMul(RMul(ret.value.fuel_consumed_tonnes,
                           IF call.fuel_type = "VLSFO"
                           THEN calc.carbon_params.CO2_factor_VLSFO_tCO2_per_t_fuel
                           ELSE calc.carbon_params.CO2_factor_LNG_tCO2_per_t_fuel),
                      call.eua_price_usd_t)
        /\ ret.value.total_voyage_cost_usd
               = RAdd(ret.value.fuel_cost_usd,
                      RAdd(ret.value.time_charter_cost_usd, ret.value.carbon_cost_usd))
    /\ NetbacksReturned =>
        ((/\ RGt(VesselUsed.boil_off_pct_per_day, R(0))
          /\ RLt(ret.value[1].voyage_details.distance_nm,
                 ret.value[2].voyage_details.distance_nm))
         => RGt(ret.value[1].delivered_energy_mmbtu, ret.value[2].delivered_energy_mmbtu))

\* A two-day voyage on LNG fuel with boil-off: the carbon cost uses the LNG
\* factor, 4 t * 2 * 1.
C25_Witness ==
    /\ VoyageReturned
    /\ call.fuel_type = "LNG"
    /\ ret.value.voyage_days = R(2)
    /\ VesselUsed.boil_off_pct_per_day = R(10)
    /\ ret.value.boil_off_m3 = R(20)
    /\ ret.value.carbon_cost_usd = R(8)

\* The two voyages of one comparison, Europe one day and Asia two days away,
\* with boil-off: Europe delivers more.
C25_ShorterRouteWitness ==
    /\ NetbacksReturned
    /\ RGt(VesselUsed.boil_off_pct_per_day, R(0))
    /\ ret.value[1].voyage_details.voyage_days = R(1)
    /\ ret.value[2].voyage_details.voyage_days = R(2)
    /\ RGt(ret.value[1].delivered_energy_mmbtu, ret.value[2].delivered_energy_mmbtu)

----------------------------------------------------------------------------
(* Further properties of the risk analyzer.                                *)

\* The netbacks of the base inputs of a stress run with the shocks of one
\* scenario on the JKM price, the freight rate and the EUA price.
ShockedNetbacks(scenario) ==
    CompareNetbacksOf(analyzer.netback_calculator, call.load_port, call.europe_port,
                      call.asia_port, call.vessel_class, call.cargo_capacity_m3,
                      call.ttf_price,
                      RAdd(call.jkm_price, scenario.spread_shock_usd),
                      RAdd(call.freight_rate_usd_day, scenario.freight_shock_usd_day),
                      call.fuel_price_usd_t,
                      RAdd(call.eua_price_usd_t, scenario.eua_shock_usd)).value

ShockedDeltaAdj(scenario) ==
    RSub(RMul(RSub(ShockedNetbacks(scenario)[2].netback_usd,
                   ShockedNetbacks(scenario)[1].netback_usd),
              RSub(R(1), analyzer.basis_haircut_pct)),
         analyzer.ops_buffer_usd)

\* C26: every stress result is computed from the base inputs of the call
\* and the shocks of its own scenario alone: JKM price, freight rate and EUA
\* price are the base values plus that scenario's shocks, TTF price and fuel
\* price are the base values, and nothing of an earlier scenario remains.
C26_ScenariosIndependent ==
    StressReturned =>
        \A i \in DOMAIN ret.value.stress_results :
            LET r == ret.value.stress_results[i]
            IN  /\ r.stressed_delta_netback_adj = ShockedDeltaAdj(r.scenario)
                /\ r.stressed_decision =
                       IF RGeq(ShockedDeltaAdj(r.scenario), analyzer.decision_buffer_usd)
                       THEN "DIVERT" ELSE "KEEP"

\* All three magnitudes non-zero: Spread Widen, evaluated right after Spread
\* Collapse, gains what Spread Collapse lost, and Freight Drop differs from
\* Freight Spike.
C26_Witness ==
    /\ StressReturned
    /\ analyzer.stress_spread_usd = R(1)
    /\ analyzer.stress_freight_usd_per_day = R(10)
    /\ analyzer.stress_eua_usd = R(1)
    /\ RLt(ret.value.stress_results[1].pnl_impact_usd, R(0))
    /\ RGt(ret.value.stress_results[2].pnl_impact_usd, R(0))
    /\ ret.value.stress_results[3].pnl_impact_usd
           # ret.value.stress_results[4].pnl_impact_usd

----------------------------------------------------------------------------
(* Further properties of the backtester.                                   *)

DistinctDates(results) ==
    \A i, j \in 1..Len(results) : i # j => results[i].date # results[j].date

\* The observations in ascending date order, for pairwise distinct dates:
\* the t-th is the one with t - 1 earlier observations.
Chronological(results) ==
    [t \in 1..Len(results) |->
        results[CHOOSE i \in 1..Len(results) :
                    Cardinality({j \in 1..Len(results) :
                                     results[j].date < results[i].date}) = t - 1]]

\* C27: for observations with pairwise distinct dates, run_backtest returns
\* for the list in any order what it returns for the chronologically sorted
\* list: the same metrics, equity curve and max_drawdown_usd.
C27_OrderOfInputIrrelevant ==
    (BacktestReturned /\ DistinctDates(call.results)) =>
        /\ ret = RunBacktestOf(Chronological(call.results))
        /\ \A t \in 1..Len(ret.value.equity_curve) :
               t > 1 => ret.value.equity_curve[t - 1].date < ret.value.equity_curve[t].date

\* Passed in as day 3: DIVERT -2, day 2: DIVERT -2, day 1: DIVERT 3.  In
\* date order the curve is 3, 1, -1 with drawdown 4; in the order passed
\* it would be -2, -4, -1 with drawdown 2.
C27_Witness ==
    /\ BacktestReturned
    /\ Len(call.results) = 3
    /\ call.results[1].date = 3 /\ call.results[1].delta_netback_adj_usd = R(-2)
    /\ call.results[2].date = 2 /\ call.results[2].delta_netback_adj_usd = R(-2)
    /\ call.results[3].date = 1 /\ call.results[3].delta_netback_adj_usd = R(3)
    /\ ret.value.equity_curve[1].cumulative_pnl = R(3)
    /\ ret.value.metrics.max_drawdown_usd = R(4)

\* The rows were labelled by the decision rule with a positive buffer.
RuleWithPositiveBuffer(results) ==
    \A i \in 1..Len(results) :
        /\ RGt(results[i].decision_buffer_usd, R(0))
        /\ results[i].decision = "DIVERT" <=>
               RGeq(results[i].delta_netback_adj_usd, results[i].decision_buffer_usd)

\* C29: when every observation was labelled by the decision rule with a
\* decision buffer > 0, every pnl is >= 0 and > 0 on triggered rows, the
\* equity curve never decreases and max_drawdown_usd is exactly 0; a
\* drawdown other than 0 needs rows not labelled so.
C29_NoDrawdownUnderPositiveBuffer ==
    BacktestReturned =>
        /\ RuleWithPositiveBuffer(call.results) =>
            /\ \A t \in 1..Len(ret.value.decision_history) :
                /\ RGeq(ret.value.decision_history[t].pnl, R(0))
                /\ ret.value.decision_history[t].triggered = 1 =>
                       RGt(ret.value.decision_history[t].pnl, R(0))
            /\ NonDecreasing(ret.value.equity_curve)
            /\ RIsZero(ret.value.metrics.max_drawdown_usd)
        /\ ~RIsZero(ret.value.metrics.max_drawdown_usd) =>
               ~RuleWithPositiveBuffer(call.results)

\* Decision buffer 3: KEEP -2, DIVERT 3 (on the boundary), KEEP -5, DIVERT 3;
\* the curve is 0, 3, 3, 6 and the drawdown 0.
C29_Witness ==
    /\ BacktestReturned
    /\ RuleWithPositiveBuffer(call.results)
    /\ Len(call.results) = 4
    /\ <<ret.value.decision_history[1].decision, ret.value.decision_history[2].decision,
         ret.value.decision_history[3].decision, ret.value.decision_history[4].decision>>
           = <<"KEEP", "DIVERT", "KEEP", "DIVERT">>
    /\ ret.value.decision_history[1].delta_netback_adj_usd = R(-2)
    /\ ret.value.equity_curve[4].cumulative_pnl = R(6)
    /\ RIsZero(ret.value.metrics.max_drawdown_usd)

\* With the decision buffer -3 a drawdown is reached.
DrawdownUnderNegativeBuffer ==
    /\ BacktestReturned
    /\ RLt(engine.decision_buffer_usd, R(0))
    /\ RGt(ret.value.metrics.max_drawdown_usd, R(0))

----------------------------------------------------------------------------
(* Relations between the components.                                       *)

\* The base result of a stress run was adjusted with the haircut and the
\* ops buffer the analyzer uses.
BaseAdjustedAsAnalyzer ==
    /\ analyzer.basis_haircut_pct = call.base_result.basis_adjustment_pct
    /\ analyzer.ops_buffer_usd = call.base_result.operational_risk_buffer_usd

ImpactOf(i) == ret.value.stress_results[i].pnl_impact_usd

\* C30: when the base result comes from the same inputs, haircut and ops
\* buffer as the stress run, the impacts of Spread Collapse and Spread Widen
\* are negations of each other, so are those of Freight Spike and Freight
\* Drop, the impact of Combined Adverse is the sum of the impacts of Spread
\* Collapse, Freight Spike and EUA Spike, and worst_case_pnl_impact <= 0.
C30_ImpactsAffineInShocks ==
    (StressReturned /\ BaseAdjustedAsAnalyzer) =>
        /\ ImpactOf(1) = RNeg(ImpactOf(2))
        /\ ImpactOf(3) = RNeg(ImpactOf(4))
        /\ ImpactOf(6) = RAdd(ImpactOf(1), RAdd(ImpactOf(3), ImpactOf(5)))
        /\ RLeq(ret.value.worst_case_pnl_impact, R(0))

\* All three shocks at work: each of Spread Collapse, Freight Spike and EUA
\* Spike loses money, and Combined Adverse is the worst case.
C30_Witness ==
    /\ StressReturned
    /\ BaseAdjustedAsAnalyzer
    /\ RLt(ImpactOf(1), R(0))
    /\ RLt(ImpactOf(3), R(0))
    /\ RLt(ImpactOf(5), R(0))
    /\ RGt(ImpactOf(2), R(0))
    /\ ret.value.worst_case_pnl_impact = ImpactOf(6)

\* What DecisionEngine.evaluate returns on the voyage inputs and the
\* decision-rule parameters of a call of run_trade_decision.
EngineOnRunInputs ==
    EvaluateNetbacksOf(calc,
                       DecisionEngineInit(call.decision_buffer_usd, call.ops_buffer_usd,
                                          call.basis_haircut_pct, call.coverage_pct,
                                          call.jkm_lot_mmbtu, call.ttf_lot_mmbtu),
                       1, call.load_port, call.europe_port, call.asia_port,
                       call.vessel_class, call.cargo_capacity_m3, call.ttf_price,
                       call.jkm_price, call.freight_rate_usd_day,
                       call.fuel_price_usd_t, call.eua_price_usd_t)

\* C28: on the same voyage inputs and coverage ratio, run_trade_decision and
\* the DIVERT ticket of DecisionEngine report the same hedge energy and the
\* same lot counts.
C28_HedgeEnergyBasisConsistent ==
    (/\ RunReturned
     /\ ret.value.decision.decision = "DIVERT"
     /\ Returned(EngineOnRunInputs)) =>
        /\ EngineOnRunInputs.value.decision = "DIVERT"
        /\ ret.value.decision.hedge_energy_mmbtu
               = EngineOnRunInputs.value.trade_ticket.hedge_energy_mmbtu
        /\ ret.value.decision.lots_jkm = EngineOnRunInputs.value.trade_ticket.jkm_lots
        /\ ret.value.decision.lots_ttf = EngineOnRunInputs.value.trade_ticket.ttf_lots

\* The two agree when Asia delivers at least as much energy as Europe: the
\* maximum of the two energies is then the Asia energy.
HedgeEnergyAgreesWhenAsiaDeliversMore ==
    (/\ RunReturned
     /\ ret.value.decision.decision = "DIVERT"
     /\ Returned(EngineOnRunInputs)
     /\ RGeq(ret.value.asia.delivered_energy_mmbtu,
             ret.value.europe.delivered_energy_mmbtu)) =>
        /\ ret.value.decision.hedge_energy_mmbtu
               = EngineOnRunInputs.value.trade_ticket.hedge_energy_mmbtu
        /\ ret.value.decision.lots_jkm = EngineOnRunInputs.value.trade_ticket.jkm_lots

\* The second of two calls with the same arguments has returned.
CalledTwice == previous # NoPrevious

\* C24: a call repeated with identical inputs yields the identical output
\* (calculate_voyage, compare_netbacks with the calculate_netback calls in
\* it, DecisionEngine.evaluate, run_stress_test, run_backtest), and no call
\* changes the route table, the vessel table, the carbon parameters, the
\* fields of the engine or of the analyzer, or the arguments it was given
\* (the base result, the list of observations): the second call, made on
\* the objects as the first has left them, has the arguments and the result
\* of the first, and after every call the instances and the arguments on
\* the heap are what they were before it.
C24_Purity ==
    /\ [](CalledTwice => (call = previous.call /\ ret = previous.ret))
    /\ [][call' # NoCall =>
              /\ engine' = engine
              /\ calc' = calc
              /\ analyzer' = analyzer
              /\ call'.left = Passed(call')]_vars

\* run_backtest called twice on a list that is not in date order (KEEP of
\* date 2, then DIVERT 3 of date 1): the frame is sorted, the list is left
\* as it was, and both calls count two observations.
C24_Witness ==
    /\ CalledTwice
    /\ call.op = "run_backtest"
    /\ Len(call.results) = 2
    /\ call.results[1].date > call.results[2].date
    /\ call.left.results = call.results
    /\ Returned(ret)
    /\ ret.value.metrics.total_observations = 2
    /\ ret.value.decision_history[1].date < ret.value.decision_history[2].date

\* run_stress_test called twice: the second call returns the six results of
\* the first.
C24_StressWitness ==
    /\ CalledTwice
    /\ call.op = "run_stress_test"
    /\ Returned(ret)
    /\ Len(ret.value.stress_results) = 6
    /\ RLt(ret.value.worst_case_pnl_impact, R(0))

====
